---- MODULE Spec2Model ----
(***************************************************************************)
(* A model of the variable-audit Figma plugin: the scene graph the host    *)
(* exposes, the binding extractor (analysis/variables.ts), the container   *)
(* traversal (analysis/nodes.ts), the audit engine (analysis/audit.ts) and *)
(* the message router (services/events.ts and the onmessage entry point).  *)
(***************************************************************************)
EXTENDS Integers, Sequences, FiniteSets, TLC

VARIABLES
    nodes,        \* the scene graph: node id -> node record (host state)
    varHost,      \* the host's variable store: variable id -> lookup outcome
    selection,    \* figma.currentPage.selection, a sequence of node ids
    inbox,        \* UI messages sent and not yet delivered to onmessage
    handler,      \* the running onmessage activation, or Idle
    jumps,        \* jumpToNode calls started and not yet resumed (detached)
    selEvents,    \* selectionchange events the host has queued, each with its cause
    outbox,       \* messages posted with figma.ui.postMessage, in order
    closed,       \* figma.closePlugin() was called
    uiSize,       \* the size of the plugin window
    viewport,     \* what the host viewport was last brought to by the plugin
    sent,         \* number of UI messages sent so far (also their sequence number)
    started,      \* sequence numbers of the messages in the order onmessage started them
    auditRun,     \* the last auditContainer call: container id, result, freshness
    analysisRun,  \* the last analyzeContainerContent call
    edits,        \* number of things the user did in the document (edits, selections)
    trip,         \* history of a hide / show round trip on one node
    probe,        \* the last call of a pure helper: function, argument, result
    history,      \* the calls repeated on one container, with the lookups each one saw
    refresher     \* the debounce flag, the timers and the interval of the section refresh

vars == <<nodes, varHost, selection, inbox, handler, jumps, selEvents, outbox,
          closed, uiSize, viewport, sent, started, auditRun, analysisRun, edits, trip,
                   probe, history, refresher>>

Null == [null |-> TRUE]

Max(a, b) == IF a >= b THEN a ELSE b
Min(a, b) == IF a <= b THEN a ELSE b

Range(s) == {s[i] : i \in 1..Len(s)}

RECURSIVE Concat(_)
\* Array.prototype.flat() / push(...xs): the concatenation of a sequence of sequences
Concat(ss) == IF ss = <<>> THEN <<>> ELSE Head(ss) \o Concat(Tail(ss))

\* Array.prototype.filter
Filter(s, Keep(_)) == SelectSeq(s, Keep)

\* String.prototype.startsWith
StartsWith(s, p) == Len(s) >= Len(p) /\ SubSeq(s, 1, Len(p)) = p

\* s.slice(-8): the last eight characters of s (all of s when it is shorter)
SliceLast8(s) == SubSeq(s, Max(1, Len(s) - 7), Len(s))

---------------------------------------------------------------------------
(* types.ts: the design property catalogue *)

GROUP_COLORS == <<"fills", "strokes", "backgroundColor", "borderColor",
                  "textColor", "fill", "stroke">>
GROUP_SPACING == <<"paddingTop", "paddingRight", "paddingBottom", "paddingLeft",
                   "itemSpacing", "counterAxisSpacing">>
GROUP_SIZING == <<"width", "height", "minWidth", "maxWidth", "minHeight", "maxHeight">>
GROUP_TYPOGRAPHY == <<"fontFamily", "fontWeight", "fontSize", "lineHeight",
                      "letterSpacing", "textDecoration">>
GROUP_EFFECTS == <<"effects", "shadow", "blur", "opacity", "effectStyleId">>

\* Object.values(DESIGN_PROPERTY_GROUPS).flat()
DESIGN_PROPERTIES ==
    Concat(<<GROUP_COLORS, GROUP_SPACING, GROUP_SIZING, GROUP_TYPOGRAPHY, GROUP_EFFECTS>>)

AUDITABLE_NODE_TYPES == {"TEXT", "FRAME", "RECTANGLE", "COMPONENT", "INSTANCE",
                         "ELLIPSE", "POLYGON", "STAR", "VECTOR", "LINE"}

\* auditContainer keeps allNodes.slice(0, 50)
AUDIT_NODE_CAP == 50

PLACEHOLDER_PREFIX == "[Variable ID:"
UNKNOWN_COLLECTION == "Unknown Collection"

---------------------------------------------------------------------------
(* The host's variable store.  A lookup of a variable id, and then of its  *)
(* collection, returns a value, returns nothing, throws, or never settles  *)
(* (the 3 s timer of getVariableInfo then rejects the race).               *)

LookupOutcomes == {"value", "null", "throws", "timeout"}

\* getVariableInfo(variableId): Null, or the resolved name and collection name
getVariableInfo(variableId) ==
    LET h == varHost[variableId] IN
    IF h.variable # "value" THEN Null            \* !variable, or caught
    ELSE IF h.collection \in {"throws", "timeout"} THEN Null   \* caught
    ELSE [name |-> h.name,
          collectionName |-> IF h.collection = "value" THEN h.collectionName
                             ELSE UNKNOWN_COLLECTION]

\* varInfo?.name || `[Variable ID: ${id.slice(-8)}]`
ResolvedName(varInfo, id) ==
    IF varInfo # Null /\ varInfo.name # "" THEN varInfo.name
    ELSE PLACEHOLDER_PREFIX \o " " \o SliceLast8(id) \o "]"

\* varInfo?.collectionName || "Unknown Collection"
ResolvedCollection(varInfo) ==
    IF varInfo # Null /\ varInfo.collectionName # "" THEN varInfo.collectionName
    ELSE UNKNOWN_COLLECTION

\* a mutant: an array element whose lookup failed is dropped
DropUnresolvedItem(prop, bind, i) ==
    IF bind.hasId /\ bind.id # "" /\ getVariableInfo(bind.id) # Null
    THEN LET varInfo == getVariableInfo(bind.id) IN
         <<[property |-> prop, variableId |-> bind.id,
            variableName |-> ResolvedName(varInfo, bind.id),
            collectionName |-> ResolvedCollection(varInfo),
            bindingType |-> "array", arrayIndex |-> i,
            variableType |-> "design", isAlias |-> FALSE]>>
    ELSE <<>>

\* one element of an array-valued binding: pushed when (bind && bind.id)
ArrayBinding(prop, bind, i) ==
    IF bind.hasId /\ bind.id # ""
    THEN LET varInfo == getVariableInfo(bind.id) IN
         <<[property |-> prop, variableId |-> bind.id,
            variableName |-> ResolvedName(varInfo, bind.id),
            collectionName |-> ResolvedCollection(varInfo),
            bindingType |-> "array", arrayIndex |-> i,
            variableType |-> "design", isAlias |-> FALSE]>>
    ELSE <<>>

\* a mutant: a scalar binding whose lookup failed is dropped
DropUnresolvedScalar(prop, binding) ==
    IF binding.hasId /\ getVariableInfo(binding.id) # Null
    THEN LET varInfo == getVariableInfo(binding.id) IN
         <<[property |-> prop, variableId |-> binding.id,
            variableName |-> ResolvedName(varInfo, binding.id),
            collectionName |-> ResolvedCollection(varInfo),
            bindingType |-> "normal", arrayIndex |-> -1,
            variableType |-> "design", isAlias |-> FALSE]>>
    ELSE <<>>

\* a scalar binding: pushed when it is an object with a string id.
\* arrayIndex is absent in the code; -1 stands for "no index".
ScalarBinding(prop, binding) ==
    IF binding.hasId
    THEN LET varInfo == getVariableInfo(binding.id) IN
         <<[property |-> prop, variableId |-> binding.id,
            variableName |-> ResolvedName(varInfo, binding.id),
            collectionName |-> ResolvedCollection(varInfo),
            bindingType |-> "normal", arrayIndex |-> -1,
            variableType |-> "design", isAlias |-> FALSE]>>
    ELSE <<>>

\* a mutant: the elements of an array-valued binding are walked from the last
ItemsBackwards(boundVars, prop) ==
    IF prop \notin DOMAIN boundVars THEN <<>>
    ELSE LET binding == boundVars[prop] IN
         IF binding.isArray
         THEN Concat([i \in 1..Len(binding.items) |->
                        ArrayBinding(prop, binding.items[Len(binding.items) + 1 - i],
                                     Len(binding.items) - i)])
         ELSE ScalarBinding(prop, binding)

\* the bindings one catalogue property contributes
PropertyBindings(boundVars, prop) ==
    IF prop \notin DOMAIN boundVars THEN <<>>
    ELSE LET binding == boundVars[prop] IN
         IF binding.isArray
         THEN Concat([i \in 1..Len(binding.items) |->
                        ArrayBinding(prop, binding.items[i], i - 1)])
         ELSE ScalarBinding(prop, binding)

\* extractVariableBindings(node): catalogue order, then array index
extractVariableBindings(node) ==
    Concat([p \in 1..Len(DESIGN_PROPERTIES) |->
              PropertyBindings(node.boundVariables, DESIGN_PROPERTIES[p])])

---------------------------------------------------------------------------
(* The scene graph.  Node ids are integers; NO_NODE stands for null (no    *)
(* parent, an id that resolves to nothing) and for the empty id string.    *)

NO_NODE == 0
\* an identifier for which figma.getNodeByIdAsync rejects
BAD_ID == -1

NodeIds == DOMAIN nodes

\* `"visible" in node`: every scene node has the flag, pages do not
HasVisibleFlag(n) == nodes[n].type # "PAGE"

RECURSIVE HiddenParent(_, _)
\* the while loop of isNodeEffectivelyVisible, from `parent` up to rootFrame
HiddenParent(parent, rootFrame) ==
    IF parent = NO_NODE \/ parent = rootFrame THEN FALSE
    ELSE IF HasVisibleFlag(parent) /\ nodes[parent].visible = FALSE THEN TRUE
    ELSE HiddenParent(nodes[parent].parent, rootFrame)

\* a mutant: only the node's own flag is looked at
OwnFlagOnly(node, rootFrame) ==
    ~(HasVisibleFlag(node) /\ nodes[node].visible = FALSE)

\* isNodeEffectivelyVisible(node, rootFrame) of nodes.ts and of audit.ts
isNodeEffectivelyVisible(node, rootFrame) ==
    IF HasVisibleFlag(node) /\ nodes[node].visible = FALSE THEN FALSE
    ELSE ~HiddenParent(nodes[node].parent, rootFrame)

---------------------------------------------------------------------------
(* analysis/audit.ts *)

RECURSIVE traverse(_, _)
\* traverse(node, rootFrame) of collectAuditableNodes: pre-order
traverse(node, rootFrame) ==
    (IF nodes[node].type \in AUDITABLE_NODE_TYPES
        /\ isNodeEffectivelyVisible(node, rootFrame)
     THEN <<node>> ELSE <<>>)
    \o Concat([i \in 1..Len(nodes[node].children) |->
                 traverse(nodes[node].children[i], rootFrame)])

\* a mutant: a section's non-FRAME children are traversed too
CollectAllChildren(container) ==
    IF nodes[container].type = "SECTION"
    THEN Concat([i \in 1..Len(nodes[container].children) |->
                   traverse(nodes[container].children[i], nodes[container].children[i])])
    ELSE traverse(container, container)

\* collectAuditableNodes(container)
collectAuditableNodes(container) ==
    IF nodes[container].type = "SECTION"
    THEN Concat([i \in 1..Len(nodes[container].children) |->
                   LET child == nodes[container].children[i] IN
                   IF nodes[child].type = "FRAME" THEN traverse(child, child) ELSE <<>>])
    ELSE traverse(container, container)

\* a mutant: a node with several bindings is taken to use a global variable
DetectsGlobal(bindings) ==
    [hasLocal |-> Len(bindings) > 0, hasGlobal |-> Len(bindings) > 1]

\* analyzeVariableTypes(bindings)
analyzeVariableTypes(bindings) ==
    [hasLocal |-> Len(bindings) > 0, hasGlobal |-> FALSE]

\* classifyNode(bindings, hasLocal, hasGlobal)
classifyNode(bindings, hasLocal, hasGlobal) ==
    IF Len(bindings) = 0 THEN "NO_VARIABLES"
    ELSE IF hasLocal /\ hasGlobal THEN "USES_VARIABLES_MIXED"
    ELSE IF hasGlobal THEN "USES_VARIABLES_GLOBAL"
    ELSE "USES_VARIABLES_LOCAL"

RECURSIVE JoinNames(_)
\* path.join(" > ")
JoinNames(path) ==
    IF path = <<>> THEN ""
    ELSE IF Len(path) = 1 THEN path[1]
    ELSE path[1] \o " > " \o JoinNames(Tail(path))

RECURSIVE FramePathNames(_)
\* the while loop of getFramePath: names of FRAME / SECTION ancestors, root first
FramePathNames(current) ==
    IF current = NO_NODE \/ nodes[current].type = "PAGE" THEN <<>>
    ELSE FramePathNames(nodes[current].parent)
         \o (IF nodes[current].type \in {"FRAME", "SECTION"}
             THEN <<nodes[current].name>> ELSE <<>>)

\* getFramePath(node)
getFramePath(node) ==
    LET joined == JoinNames(FramePathNames(nodes[node].parent)) IN
    IF joined = "" THEN "Root" ELSE joined

\* a finding; property "" stands for an absent property
Finding(nodeId, rule, severity, message, property) ==
    [nodeId |-> nodeId, rule |-> rule, severity |-> severity,
     message |-> message, property |-> property]

BoundProperties(bindings) == {bindings[i].property : i \in 1..Len(bindings)}

\* a mutant: one bound probe property is enough, none has to be unbound
MixedTextWhenBound(node, bindings) ==
    LET textProperties == {"fontSize", "fontFamily", "fontWeight", "fills"}
        hasBoundText == \E prop \in textProperties : prop \in BoundProperties(bindings)
    IN IF Len(nodes[node].characters) > 0 /\ hasBoundText
       THEN <<Finding(node, "MixedText", "warning",
                      "Text node has mixed variable-bound and manual styling", "")>>
       ELSE <<>>

\* checkMixedText(node, bindings)
checkMixedText(node, bindings) ==
    LET textProperties == {"fontSize", "fontFamily", "fontWeight", "fills"}
        hasBoundText == \E prop \in textProperties : prop \in BoundProperties(bindings)
        hasUnboundText == \E prop \in textProperties : prop \notin BoundProperties(bindings)
    IN IF Len(nodes[node].characters) > 0 /\ hasBoundText /\ hasUnboundText
       THEN <<Finding(node, "MixedText", "warning",
                      "Text node has mixed variable-bound and manual styling", "")>>
       ELSE <<>>

\* a mutant: a node with a legacy style is reported whatever is bound
StyleConflictsAlways(node, bindings) ==
    (IF nodes[node].fillStyleId # ""
     THEN <<Finding(node, "ConflictingStyleVsVariable", "info",
                    "Node uses legacy fill style instead of color variables", "fills")>>
     ELSE <<>>)
    \o
    (IF nodes[node].strokeStyleId # ""
     THEN <<Finding(node, "ConflictingStyleVsVariable", "info",
                    "Node uses legacy stroke style instead of color variables", "strokes")>>
     ELSE <<>>)

\* checkStyleConflicts(node, bindings)
checkStyleConflicts(node, bindings) ==
    (IF nodes[node].fillStyleId # "" /\ "fills" \notin BoundProperties(bindings)
     THEN <<Finding(node, "ConflictingStyleVsVariable", "info",
                    "Node uses legacy fill style instead of color variables", "fills")>>
     ELSE <<>>)
    \o
    (IF nodes[node].strokeStyleId # "" /\ "strokes" \notin BoundProperties(bindings)
     THEN <<Finding(node, "ConflictingStyleVsVariable", "info",
                    "Node uses legacy stroke style instead of color variables", "strokes")>>
     ELSE <<>>)

\* a mutant: every property is held against its own value, and the frame
\* record has no padding but paddingTop, so the other sides never count
MagicNumbersPerSide(node, bindings) ==
    LET spacingProperties ==
            <<"paddingTop", "paddingRight", "paddingBottom", "paddingLeft", "itemSpacing">>
        hasValue(prop) ==
            \/ prop = "itemSpacing" /\ nodes[node].itemSpacing > 0
            \/ prop = "paddingTop" /\ nodes[node].paddingTop > 0
        one(prop) ==
            IF prop \notin BoundProperties(bindings) /\ hasValue(prop)
            THEN <<Finding(node, "MagicNumbers", "warning",
                           "Auto-layout " \o prop
                             \o " uses magic number instead of spacing variable",
                           prop)>>
            ELSE <<>>
    IN IF nodes[node].layoutMode # "NONE"
       THEN Concat([i \in 1..Len(spacingProperties) |-> one(spacingProperties[i])])
       ELSE <<>>

\* checkMagicNumbers(node, bindings)
checkMagicNumbers(node, bindings) ==
    LET spacingProperties ==
            <<"paddingTop", "paddingRight", "paddingBottom", "paddingLeft", "itemSpacing">>
        hasValue(prop) ==
            \/ prop = "itemSpacing" /\ nodes[node].itemSpacing > 0
            \/ StartsWith(prop, "padding") /\ nodes[node].paddingTop > 0
        one(prop) ==
            IF prop \notin BoundProperties(bindings) /\ hasValue(prop)
            THEN <<Finding(node, "MagicNumbers", "warning",
                           "Auto-layout " \o prop
                             \o " uses magic number instead of spacing variable",
                           prop)>>
            ELSE <<>>
    IN IF nodes[node].layoutMode # "NONE"
       THEN Concat([i \in 1..Len(spacingProperties) |-> one(spacingProperties[i])])
       ELSE <<>>

\* a mutant: the test is made on the collection name instead of the variable name
UnresolvableByCollection(bindings) ==
    Concat([i \in 1..Len(bindings) |->
        IF bindings[i].collectionName = UNKNOWN_COLLECTION
        THEN <<Finding(NO_NODE, "UnresolvableVariable", "error",
                       "Variable reference cannot be resolved: " \o bindings[i].variableName,
                       bindings[i].property)>>
        ELSE <<>>])

\* checkUnresolvableVariables(bindings); nodeId is "" ("Will be set by caller")
checkUnresolvableVariables(bindings) ==
    Concat([i \in 1..Len(bindings) |->
        IF StartsWith(bindings[i].variableName, PLACEHOLDER_PREFIX)
        THEN <<Finding(NO_NODE, "UnresolvableVariable", "error",
                       "Variable reference cannot be resolved: " \o bindings[i].variableName,
                       bindings[i].property)>>
        ELSE <<>>])

\* applyLintRules(node, bindings)
applyLintRules(node, bindings) ==
    (IF Len(bindings) = 0
     THEN <<Finding(node, "NoVariables", "warning",
                    "Node has no variable bindings - using manual values only", "")>>
     ELSE <<>>)
    \o (IF nodes[node].type = "TEXT" THEN checkMixedText(node, bindings) ELSE <<>>)
    \o checkStyleConflicts(node, bindings)
    \o (IF nodes[node].type = "FRAME" THEN checkMagicNumbers(node, bindings) ELSE <<>>)
    \o checkUnresolvableVariables(bindings)

\* processNode(node)
processNode(node) ==
    LET variableBindings == extractVariableBindings(nodes[node])
        framePath == getFramePath(node)
        types == analyzeVariableTypes(variableBindings)
        classification == classifyNode(variableBindings, types.hasLocal, types.hasGlobal)
        lintFindings == applyLintRules(node, variableBindings)
    IN [id |-> node, name |-> nodes[node].name, type |-> nodes[node].type,
        framePath |-> framePath, classification |-> classification,
        variableBindings |-> variableBindings, lintFindings |-> lintFindings,
        hasLocalVariables |-> types.hasLocal, hasGlobalVariables |-> types.hasGlobal]

\* a mutant: a node is listed without variables when a rule warns about it
HasWarning(n) == \E i \in 1..Len(n.lintFindings) : n.lintFindings[i].severity = "warning"

IsWithVariables(n) == n.classification # "NO_VARIABLES"
IsWithoutVariables(n) == n.classification = "NO_VARIABLES"
IsLocalOnly(n) == n.classification = "USES_VARIABLES_LOCAL"
IsGlobalOnly(n) == n.classification = "USES_VARIABLES_GLOBAL"
IsMixed(n) == n.classification = "USES_VARIABLES_MIXED"

\* calculateSummary(nodes)
calculateSummary(processed) ==
    LET totalAuditableNodes == Len(processed)
        withVariablesNodes == Filter(processed, IsWithVariables)
        withLocalOnly == Filter(processed, IsLocalOnly)
        withGlobalOnly == Filter(processed, IsGlobalOnly)
        withMixed == Filter(processed, IsMixed)
    IN [totalAuditableNodes |-> totalAuditableNodes,
        withVariablesCount |-> Len(withVariablesNodes),
        withLocalVariablesCount |-> Len(withLocalOnly) + Len(withMixed),
        withGlobalVariablesCount |-> Len(withGlobalOnly) + Len(withMixed),
        withoutVariablesCount |-> totalAuditableNodes - Len(withVariablesNodes)]

\* a mutant: the slice is forgotten
NoSlice(allNodes) == allNodes

\* allNodes.slice(0, 50)
CapNodes(allNodes) == SubSeq(allNodes, 1, Min(Len(allNodes), AUDIT_NODE_CAP))

\* a mutant: the share of the nodes without variables
CoverageOfWithout(summary) ==
    IF summary.totalAuditableNodes > 0
    THEN [num |-> summary.withoutVariablesCount * 100, den |-> summary.totalAuditableNodes]
    ELSE [num |-> 0, den |-> 1]

\* the coverage percentage, an exact fraction num / den (den >= 1)
CoveragePercentage(summary) ==
    IF summary.totalAuditableNodes > 0
    THEN [num |-> summary.withVariablesCount * 100, den |-> summary.totalAuditableNodes]
    ELSE [num |-> 0, den |-> 1]

\* getNodeByIdAsync(id): the node, NO_NODE for null; it rejects for BAD_ID
getNodeById(id) == IF id \in NodeIds THEN id ELSE NO_NODE

\* the test auditContainer and analyzeContainerContent make on the looked-up node
IsContainer(container) ==
    container # NO_NODE /\ nodes[container].type \in {"SECTION", "FRAME"}

\* a mutant: an invalid container is reported as an empty audit instead of null
AuditNeverNull(containerId, fault) ==
    [containerId |-> containerId, containerName |-> "",
     summary |-> calculateSummary(<<>>), withVariables |-> <<>>,
     withoutVariables |-> <<>>, lintFindings |-> <<>>,
     coveragePercentage |-> [num |-> 0, den |-> 1]]

\* auditContainer(containerId).  `fault` is a node whose property reads throw
\* during this call (it was removed while the audit awaited the host), or
\* NO_NODE; the throw leaves processNode and is caught by the outer catch.
auditContainer(containerId, fault) ==
    IF containerId = BAD_ID THEN Null
    ELSE LET container == getNodeById(containerId) IN
    IF ~IsContainer(container) THEN Null
    ELSE LET allNodes == collectAuditableNodes(container)
             auditableNodes == CapNodes(allNodes)
         IN IF fault \in Range(auditableNodes) THEN Null
            ELSE LET processedNodes ==
                         [i \in 1..Len(auditableNodes) |-> processNode(auditableNodes[i])]
                     allLintFindings ==
                         Concat([i \in 1..Len(processedNodes) |->
                                   processedNodes[i].lintFindings])
                     summary == calculateSummary(processedNodes)
                 IN [containerId |-> container,
                     containerName |-> nodes[container].name,
                     summary |-> summary,
                     withVariables |-> Filter(processedNodes, IsWithVariables),
                     withoutVariables |-> Filter(processedNodes, IsWithoutVariables),
                     lintFindings |-> allLintFindings,
                     coveragePercentage |-> CoveragePercentage(summary)]

---------------------------------------------------------------------------
(* analysis/variables.ts: the property classifier and the grouping *)

\* String.prototype.includes
Includes(s, sub) ==
    \E i \in 1..(Len(s) - Len(sub) + 1) : SubSeq(s, i, i + Len(sub) - 1) = sub

\* a mutant: exact membership only, without the effect fallback
ExactGroupOnly(property) ==
    IF property \in Range(GROUP_COLORS) THEN "colors"
    ELSE IF property \in Range(GROUP_SPACING) THEN "spacing"
    ELSE IF property \in Range(GROUP_SIZING) THEN "sizing"
    ELSE IF property \in Range(GROUP_TYPOGRAPHY) THEN "typography"
    ELSE IF property \in Range(GROUP_EFFECTS) THEN "effects"
    ELSE "other"

\* getPropertyGroup(property)
getPropertyGroup(property) ==
    IF property \in Range(GROUP_COLORS) THEN "colors"
    ELSE IF property \in Range(GROUP_SPACING) THEN "spacing"
    ELSE IF property \in Range(GROUP_SIZING) THEN "sizing"
    ELSE IF property \in Range(GROUP_TYPOGRAPHY) THEN "typography"
    ELSE IF property \in Range(GROUP_EFFECTS) THEN "effects"
    ELSE IF \/ StartsWith(property, "effect.")
            \/ StartsWith(property, "dropShadow.")
            \/ StartsWith(property, "innerShadow.")
            \/ StartsWith(property, "layerBlur.")
            \/ StartsWith(property, "backgroundBlur.")
            \/ Includes(property, "SHADOW")
            \/ Includes(property, "BLUR")
    THEN "effects"
    ELSE "other"

PropertyGroups == <<"colors", "spacing", "sizing", "typography", "effects", "other">>

\* a mutant: a binding of no known group is left out
GroupKnownOnly(bindings) ==
    [g \in Range(PropertyGroups) |->
        LET InGroup(b) == getPropertyGroup(b.property) = g /\ g # "other"
        IN Filter(bindings, InGroup)]

\* groupBindings(bindings)
groupBindings(bindings) ==
    [g \in Range(PropertyGroups) |->
        LET InGroup(b) == getPropertyGroup(b.property) = g
        IN Filter(bindings, InGroup)]

---------------------------------------------------------------------------
(* analysis/components.ts *)

Undefined == [undefined |-> TRUE]

\* remoteLibrary = "Remote Library", set for a remote component only
RemoteLibrary(c) == "Remote Library"

\* analyzeComponentInfo(node), node an INSTANCE
analyzeComponentInfo(node) ==
    LET m == nodes[node].mainComponent IN
    IF m.outcome # "value" THEN Undefined      \* no main component, or caught
    ELSE [id |-> node, name |-> nodes[node].name,
          mainComponentId |-> m.id, mainComponentName |-> m.name,
          isRemote |-> m.remote,
          remoteLibrary |-> IF m.remote THEN RemoteLibrary(m) ELSE ""]

\* analyzeMainComponentInfo(node), node a COMPONENT
analyzeMainComponentInfo(node) ==
    LET c == nodes[node].component IN
    [id |-> node, name |-> nodes[node].name,
     mainComponentId |-> node, mainComponentName |-> nodes[node].name,
     isRemote |-> c.remote,
     remoteLibrary |-> IF c.remote THEN RemoteLibrary(c) ELSE ""]

---------------------------------------------------------------------------
(* analysis/nodes.ts *)

\* `${property}[${arrayIndex}]: Variable (${variableName} from ${collectionName})`
PropertyDetail(binding) ==
    (IF binding.bindingType = "array"
     THEN binding.property \o "[" \o ToString(binding.arrayIndex) \o "]"
     ELSE binding.property)
    \o ": Variable (" \o binding.variableName \o " from " \o binding.collectionName \o ")"

\* characters.substring(0, 50) + (characters.length > 50 ? "..." : "")
TruncatedCharacters(characters) ==
    SubSeq(characters, 1, Min(Len(characters), 50))
    \o (IF Len(characters) > 50 THEN "..." ELSE "")

\* analyzeNode(node)
analyzeNode(node) ==
    LET variableBindings == extractVariableBindings(nodes[node])
        propertyDetails ==
            IF Len(variableBindings) > 0
            THEN [i \in 1..Len(variableBindings) |-> PropertyDetail(variableBindings[i])]
            ELSE <<"No variable bindings found">>
    IN [id |-> node, name |-> nodes[node].name, type |-> nodes[node].type,
        variableBindings |-> variableBindings,
        groupedBindings |-> groupBindings(variableBindings),
        hasBoundVariables |-> Len(variableBindings) > 0,
        propertyDetails |-> propertyDetails,
        characters |-> IF nodes[node].type = "TEXT"
                       THEN TruncatedCharacters(nodes[node].characters) ELSE "",
        componentInfo |-> IF nodes[node].type = "INSTANCE" THEN analyzeComponentInfo(node)
                          ELSE IF nodes[node].type = "COMPONENT"
                               THEN analyzeMainComponentInfo(node)
                          ELSE Undefined]

RECURSIVE findAll(_)
\* frame.findAll(): every descendant, parents before children, in child order
findAll(node) ==
    Concat([i \in 1..Len(nodes[node].children) |->
              <<nodes[node].children[i]>> \o findAll(nodes[node].children[i])])

RECURSIVE BoundComponentParent(_, _)
\* the inner while loop of the visibleNodes filter: a COMPONENT or INSTANCE
\* between the node and the frame has a non-empty raw binding map
BoundComponentParent(parent, frame) ==
    IF parent = NO_NODE \/ parent = frame THEN FALSE
    ELSE IF /\ nodes[parent].type \in {"COMPONENT", "INSTANCE"}
            /\ DOMAIN nodes[parent].boundVariables # {}
         THEN TRUE
    ELSE BoundComponentParent(nodes[parent].parent, frame)

\* a mutant: the nested-component exclusion is dropped
VisibleOnly(node, frame) == isNodeEffectivelyVisible(node, frame)

\* the predicate of allNodes.filter(...) in analyzeContainerContent
IsAnalyzed(node, frame) ==
    /\ isNodeEffectivelyVisible(node, frame)
    /\ ~BoundComponentParent(nodes[node].parent, frame)

\* a mutant: the frames nested deeper in a section are analyzed as well
AllFrameDescendants(container) ==
    IF nodes[container].type = "SECTION"
    THEN LET IsFrame(c) == nodes[c].type = "FRAME"
         IN Filter(findAll(container), IsFrame)
    ELSE <<container>>

\* the frames analyzeContainerContent analyzes
frameChildren(container) ==
    IF nodes[container].type = "SECTION"
    THEN LET IsFrame(c) == nodes[c].type = "FRAME"
         IN Filter(nodes[container].children, IsFrame)
    ELSE <<container>>

\* visibleNodes of one frame
visibleNodes(frame) ==
    LET Keep(n) == IsAnalyzed(n, frame) IN Filter(findAll(frame), Keep)

CountIf(s, P(_)) == Len(SelectSeq(s, P))

\* a mutant: an instance whose main component is not resolved counts as local
CountUnresolvedAsLocal(visible) ==
    LET LocalInstance(n) ==
            nodes[n].type = "INSTANCE" /\ ~(/\ nodes[n].mainComponent.outcome = "value"
                                            /\ nodes[n].mainComponent.remote)
        LocalComponent(n) == nodes[n].type = "COMPONENT" /\ ~nodes[n].component.remote
    IN CountIf(visible, LocalInstance) + CountIf(visible, LocalComponent)

\* remoteComponentsCount after the two counting loops of one frame
remoteComponentsCount(visible) ==
    LET RemoteInstance(n) ==
            /\ nodes[n].type = "INSTANCE"
            /\ nodes[n].mainComponent.outcome = "value"
            /\ nodes[n].mainComponent.remote
        RemoteComponent(n) == nodes[n].type = "COMPONENT" /\ nodes[n].component.remote
    IN CountIf(visible, RemoteInstance) + CountIf(visible, RemoteComponent)

\* localComponentsCount after the two counting loops of one frame
localComponentsCount(visible) ==
    LET LocalInstance(n) ==
            /\ nodes[n].type = "INSTANCE"
            /\ nodes[n].mainComponent.outcome = "value"
            /\ ~nodes[n].mainComponent.remote
        LocalComponent(n) == nodes[n].type = "COMPONENT" /\ ~nodes[n].component.remote
    IN CountIf(visible, LocalInstance) + CountIf(visible, LocalComponent)

\* the FrameInfo of one frame
FrameInfo(frame) ==
    LET visible == visibleNodes(frame)
        IsText(n) == nodes[n].type = "TEXT"
        IsInstance(n) == nodes[n].type = "INSTANCE"
        IsComponent(n) == nodes[n].type = "COMPONENT"
    IN [id |-> frame, name |-> nodes[frame].name,
        totalNodes |-> Len(visible),
        textNodesCount |-> CountIf(visible, IsText),
        instanceNodesCount |-> CountIf(visible, IsInstance),
        componentNodesCount |-> CountIf(visible, IsComponent),
        remoteComponentsCount |-> remoteComponentsCount(visible),
        localComponentsCount |-> localComponentsCount(visible),
        nodes |-> [i \in 1..Len(visible) |-> analyzeNode(visible[i])]]

RECURSIVE SumField(_, _)
SumField(frames, f) ==
    IF frames = <<>> THEN 0 ELSE Head(frames)[f] + SumField(Tail(frames), f)

\* a mutant: an invalid container is reported as an empty analysis instead of null
AnalysisNeverNull(containerId, fault) ==
    [sectionId |-> containerId, sectionName |-> "", totalFrames |-> 0,
     totalTextNodes |-> 0, totalNodes |-> 0, totalInstanceNodes |-> 0,
     totalComponentNodes |-> 0, totalRemoteComponents |-> 0,
     totalLocalComponents |-> 0, frames |-> <<>>]

\* analyzeContainerContent(containerId).  `fault` is as for auditContainer:
\* a read of a node removed during the call throws in analyzeNode and is
\* caught by the outer catch.
analyzeContainerContent(containerId, fault) ==
    IF containerId = BAD_ID THEN Null
    ELSE LET container == getNodeById(containerId) IN
    IF ~IsContainer(container) THEN Null
    ELSE LET fc == frameChildren(container) IN
         IF \E i \in 1..Len(fc) : fault \in Range(visibleNodes(fc[i])) THEN Null
         ELSE LET frames == [i \in 1..Len(fc) |-> FrameInfo(fc[i])]
              IN [sectionId |-> container,
                  sectionName |-> nodes[container].name,
                  totalFrames |-> Len(frames),
                  totalTextNodes |-> SumField(frames, "textNodesCount"),
                  totalNodes |-> SumField(frames, "totalNodes"),
                  totalInstanceNodes |-> SumField(frames, "instanceNodesCount"),
                  totalComponentNodes |-> SumField(frames, "componentNodesCount"),
                  totalRemoteComponents |-> SumField(frames, "remoteComponentsCount"),
                  totalLocalComponents |-> SumField(frames, "localComponentsCount"),
                  frames |-> frames]

---------------------------------------------------------------------------
(* Documents.  A node record carries the fields the plugin reads.          *)

NoMainComponent ==
    [outcome |-> "null", id |-> NO_NODE, name |-> "", remote |-> FALSE,
     libraryName |-> "", libraryObjectName |-> ""]

NoComponent == [remote |-> FALSE, libraryName |-> "", libraryObjectName |-> ""]

Node(name, type, parent, children) ==
    [name |-> name, type |-> type, parent |-> parent, children |-> children,
     visible |-> TRUE, boundVariables |-> <<>>, characters |-> "",
     fillStyleId |-> "", strokeStyleId |-> "", layoutMode |-> "NONE",
     paddingTop |-> 0, itemSpacing |-> 0,
     mainComponent |-> NoMainComponent, component |-> NoComponent]

\* the variable ids the documents bind: shorter than, exactly, and longer than 8 characters
VarShort == "V:9"
VarEight == "ID:12:34"
VarLong == "VariableID:7:21"
VarIds == {VarShort, VarEight, VarLong}

Alias(id) == [isArray |-> FALSE, hasId |-> TRUE, id |-> id, items |-> <<>>]
\* a scalar entry that is no variable alias (it carries no id)
NotAnAlias == [isArray |-> FALSE, hasId |-> FALSE, id |-> "", items |-> <<>>]
AliasArray(items) == [isArray |-> TRUE, hasId |-> FALSE, id |-> "", items |-> items]
Item(id) == [hasId |-> TRUE, id |-> id]
\* an array element that is null
NoItem == [hasId |-> FALSE, id |-> ""]

\* the raw binding maps an instance is given in the small documents
InstanceBindings ==
    [none |-> << >>,
     catalogue |-> [itemSpacing |-> Alias(VarEight)],
     raw |-> [topLeftRadius |-> Alias(VarEight)]]

MainComponents ==
    [local |-> [outcome |-> "value", id |-> 15, name |-> "Button/Main", remote |-> FALSE,
                libraryName |-> "", libraryObjectName |-> ""],
     remote |-> [outcome |-> "value", id |-> 99, name |-> "Button/Lib", remote |-> TRUE,
                 libraryName |-> "", libraryObjectName |-> "Kit"],
     missing |-> NoMainComponent,
     throws |-> [NoMainComponent EXCEPT !.outcome = "throws"]]

\* A page with a section "Landing" (two frames and a loose rectangle), an
\* empty section, a rectangle outside every container, and a local component.
SmallDoc(instBindings, main) ==
    [n \in 1..15 |->
        CASE n = 1 -> Node("Page 1", "PAGE", NO_NODE, <<2, 6, 14, 15>>)
          [] n = 2 -> Node("Landing", "SECTION", 1, <<3, 4, 5>>)
          [] n = 3 -> [Node("Hero", "FRAME", 2, <<7, 8, 10>>) EXCEPT
                          !.layoutMode = "HORIZONTAL", !.paddingTop = 8,
                          !.boundVariables = [paddingLeft |-> Alias(VarShort)]]
          [] n = 4 -> Node("Loose", "RECTANGLE", 2, <<>>)
          [] n = 5 -> Node("Footer", "FRAME", 2, <<12>>)
          [] n = 6 -> Node("Empty", "SECTION", 1, <<>>)
          [] n = 7 -> [Node("Title", "TEXT", 3, <<>>) EXCEPT
                          !.characters = "Hello",
                          !.boundVariables =
                              [fills |-> AliasArray(<<Item(VarLong), NoItem, Item(VarShort)>>),
                               fontSize |-> Alias(VarLong),
                               width |-> NotAnAlias]]
          [] n = 8 -> [Node("Button", "INSTANCE", 3, <<9>>) EXCEPT
                          !.boundVariables = instBindings,
                          !.mainComponent = main]
          [] n = 9 -> [Node("Bg", "RECTANGLE", 8, <<>>) EXCEPT !.fillStyleId = "S:1"]
          [] n = 10 -> Node("Group", "GROUP", 3, <<11>>)
          [] n = 11 -> [Node("Dot", "ELLIPSE", 10, <<>>) EXCEPT
                          !.boundVariables = [fills |-> AliasArray(<<Item(VarEight)>>)]]
          [] n = 12 -> Node("Inner", "FRAME", 5, <<13>>)
          [] n = 13 -> [Node("Legal", "TEXT", 12, <<>>) EXCEPT !.characters = "(c)"]
          [] n = 14 -> Node("Stray", "RECTANGLE", 1, <<>>)
          [] n = 15 -> [Node("Button/Main", "COMPONENT", 1, <<>>) EXCEPT
                          !.boundVariables = [fills |-> AliasArray(<<Item(VarShort)>>)]]]

SmallDocs ==
    {SmallDoc(InstanceBindings[b], MainComponents[m]) :
        b \in DOMAIN InstanceBindings, m \in DOMAIN MainComponents}

\* the largest number of descendants of the frame of a wide document
MaxWide == 53
WideSizes == (MaxWide - 5)..MaxWide

\* A page with one frame "Wide" (node 2) whose k descendants 3..k+2 form
\* chains of three: a FRAME (or a GROUP) holding a RECTANGLE holding a TEXT.
\* Node `hidden` has its visible flag off, node `group` is a GROUP.
WideDoc(k, hidden, group) ==
    [n \in 1..(k + 2) |->
        LET pos == (n - 3) % 3
            below == IF pos < 2 /\ n + 1 <= k + 2 THEN <<n + 1>> ELSE <<>>
            base ==
              CASE n = 1 -> Node("Page 1", "PAGE", NO_NODE, <<2>>)
                [] n = 2 -> Node("Wide", "FRAME", 1,
                                 SelectSeq([i \in 1..k |-> i + 2],
                                           LAMBDA c : (c - 3) % 3 = 0))
                [] n > 2 /\ pos = 0 ->
                       Node("Row", IF n = group THEN "GROUP" ELSE "FRAME", 2, below)
                [] n > 2 /\ pos = 1 -> Node("Box", "RECTANGLE", n - 1, below)
                [] n > 2 /\ pos = 2 ->
                       [Node("Label", "TEXT", n - 1, <<>>) EXCEPT
                           !.characters = "x",
                           !.boundVariables = [fontSize |-> Alias(VarEight)]]
        IN [base EXCEPT !.visible = (n # hidden)]]

WideDocs ==
    {WideDoc(k, h, g) : k \in WideSizes, h \in {0, 4, 9, 52}, g \in {0, 6, 48}}

\* what the host answers for one variable id
VarStates ==
    { [variable |-> v, name |-> n, collection |-> c, collectionName |-> "Brand"] :
        v \in LookupOutcomes, n \in {"color/primary"}, c \in LookupOutcomes }
    \cup
    { [variable |-> "value", name |-> n, collection |-> "value", collectionName |-> "Brand"] :
        n \in {"", "[Variable ID: mine]"} }

Resolved ==
    [variable |-> "value", name |-> "color/primary",
     collection |-> "value", collectionName |-> "Brand"]

\* the stores in which at most one variable id departs from Resolved
VarStores ==
    { [id \in VarIds |-> IF id = odd THEN st ELSE Resolved] :
        odd \in VarIds, st \in VarStates }

---------------------------------------------------------------------------
(* Calls of the two analyses on the current document *)

NoRun == [containerId |-> NO_NODE, result |-> Null, threw |-> FALSE, fresh |-> FALSE]

\* let pendingSectionsRefresh = false; let sectionsPollingInterval = null (0
\* stands for null); no timer is set and no interval runs; `calls` counts the
\* calls of refreshSectionsDebounced, `answered` those of them that a
\* sections-loaded message has followed
AtStart ==
    [pendingSectionsRefresh |-> FALSE, timers |-> 0,
     sectionsPollingInterval |-> 0, intervals |-> 0, calls |-> 0, answered |-> 0]

\* no call has been repeated yet
NoHistory == [audit |-> <<>>, analysis |-> <<>>]

\* no pure helper has been called yet
NoProbe == [fn |-> "none"]

NoTrip == [stage |-> "none", node |-> NO_NODE, containerId |-> NO_NODE,
           auditBefore |-> {}, analysisBefore |-> {},
           auditHidden |-> {}, analysisHidden |-> {}]

Idle == [busy |-> FALSE]

\* figma.showUI(__html__, { width: 600, height: 500 })
InitialSize == [width |-> 600, height |-> 500]

\* the largest node id a request names, and the largest node id that fails
MaxRequestId == 6
MaxFaultId == 14

RequestIds == {BAD_ID, NO_NODE} \cup {n \in NodeIds : n <= MaxRequestId}
FaultIds == {NO_NODE} \cup {n \in NodeIds : n <= MaxFaultId}

\* the nodes auditContainer processes for a valid container
Retained(containerId) == CapNodes(collectAuditableNodes(containerId))

\* processing throws: the fault is one of the nodes the call reads after an await
AuditThrows(containerId, fault) ==
    /\ containerId # BAD_ID
    /\ IsContainer(getNodeById(containerId))
    /\ fault \in Range(Retained(containerId))

AnalysisThrows(containerId, fault) ==
    /\ containerId # BAD_ID
    /\ IsContainer(getNodeById(containerId))
    /\ \E i \in 1..Len(frameChildren(containerId)) :
          fault \in Range(visibleNodes(frameChildren(containerId)[i]))

RunAudit(containerId, fault) ==
    /\ ~auditRun.fresh
    /\ analysisRun.fresh => analysisRun.containerId = containerId
    /\ auditRun' = [containerId |-> containerId,
                    result |-> auditContainer(containerId, fault),
                    threw |-> AuditThrows(containerId, fault),
                    fresh |-> TRUE]
    /\ UNCHANGED <<nodes, varHost, selection, inbox, handler, jumps, selEvents,
                   outbox, closed, uiSize, viewport, sent, started, analysisRun, edits, trip,
                   probe, history, refresher>>

RunAnalysis(containerId, fault) ==
    /\ ~analysisRun.fresh
    /\ auditRun.fresh => auditRun.containerId = containerId
    /\ analysisRun' = [containerId |-> containerId,
                       result |-> analyzeContainerContent(containerId, fault),
                       threw |-> AnalysisThrows(containerId, fault),
                       fresh |-> TRUE]
    /\ UNCHANGED <<nodes, varHost, selection, inbox, handler, jumps, selEvents,
                   outbox, closed, uiSize, viewport, sent, started, auditRun, edits, trip,
                   probe, history, refresher>>

RouterAtRest ==
    /\ selection = <<>>
    /\ inbox = <<>>
    /\ handler = Idle
    /\ jumps = {}
    /\ selEvents = <<>>
    /\ outbox = <<>>
    /\ closed = FALSE
    /\ uiSize = InitialSize
    /\ viewport = [center |-> NO_NODE]
    /\ sent = 0
    /\ started = <<>>

InitAudit ==
    /\ \/ nodes \in SmallDocs /\ varHost \in VarStores
       \/ nodes \in WideDocs /\ varHost = [id \in VarIds |-> Resolved]
    /\ RouterAtRest
    /\ auditRun = NoRun
    /\ analysisRun = NoRun
    /\ edits = 0
    /\ trip = NoTrip
    /\ probe = NoProbe
    /\ history = NoHistory
    /\ refresher = AtStart

NextAudit ==
    \/ \E c \in RequestIds, f \in FaultIds : RunAudit(c, f)
    \/ \E c \in RequestIds, f \in FaultIds : RunAnalysis(c, f)

\* the analyses applied to every document and variable store
SpecAudit == InitAudit /\ [][NextAudit]_vars

---------------------------------------------------------------------------
(* services/events.ts and the entry point: the message router.  The UI     *)
(* sends messages; the host hands them one at a time to onmessage; an      *)
(* activation that awaits is suspended and resumed by a later step.        *)

\* the largest number of UI messages followed, and the largest node id one names
MaxMsgs == 2
MaxMsgId == 4

\* the identifiers a message carries: one that makes the lookup reject, one
\* that resolves to nothing, a page, a section, a frame and a rectangle
MsgIds == {BAD_ID, NO_NODE} \cup {n \in NodeIds : n <= MaxMsgId}

RequestTypes == {"analyze-section", "audit-container", "get-container-info"}

ResizeSizes == {[width |-> 800, height |-> 600]}

\* the messages the UI sends; `id` is sectionId, containerId or nodeId
UIMessages ==
    {[type |-> t, id |-> i, size |-> InitialSize] :
        t \in RequestTypes \cup {"jump-to-node"}, i \in MsgIds}
    \cup {[type |-> t, id |-> NO_NODE, size |-> InitialSize] :
            t \in {"get-sections", "cancel"}}
    \cup {[type |-> "resize", id |-> NO_NODE, size |-> sz] : sz \in ResizeSizes}

\* the node whose reads may throw during a request of the router
RouterFaults == {NO_NODE} \cup {n \in NodeIds : nodes[n].name = "Title"}

\* figma.ui.postMessage: `re` is the sequence number of the request the
\* message answers (0 for a notification), kept for the properties only
postMessage(type, payload, re) ==
    outbox' = Append(outbox, [type |-> type, payload |-> payload, re |-> re])

\* the UI posts a message to the plugin
Send(m) ==
    /\ ~closed
    /\ sent < MaxMsgs
    /\ sent' = sent + 1
    /\ inbox' = Append(inbox, [seq |-> sent + 1, type |-> m.type, id |-> m.id,
                               size |-> m.size])
    /\ UNCHANGED <<nodes, varHost, selection, handler, jumps, selEvents, outbox,
                   closed, uiSize, viewport, started, auditRun, analysisRun, edits, trip,
                   probe, history, refresher>>

\* the host hands the next message to onmessage once the promise of the
\* previous onmessage call has settled
HostReady == ~closed /\ handler = Idle /\ inbox # <<>>

\* onmessage takes the message at the head of the queue
Take(fault) ==
    /\ inbox' = Tail(inbox)
    /\ started' = Append(started, [seq |-> Head(inbox).seq, type |-> Head(inbox).type,
                                   id |-> Head(inbox).id, fault |-> fault])

\* onmessage, msg.type === "resize": figma.ui.resize and return
OnResize ==
    /\ HostReady
    /\ Head(inbox).type = "resize"
    /\ Take(NO_NODE)
    /\ uiSize' = Head(inbox).size
    /\ UNCHANGED <<nodes, varHost, selection, handler, jumps, selEvents, outbox,
                   closed, viewport, sent, auditRun, analysisRun, edits, trip,
                   probe, history, refresher>>

\* handleUIMessage, "get-sections": only a log line
OnGetSections ==
    /\ HostReady
    /\ Head(inbox).type = "get-sections"
    /\ Take(NO_NODE)
    /\ UNCHANGED <<nodes, varHost, selection, handler, jumps, selEvents, outbox,
                   closed, uiSize, viewport, sent, auditRun, analysisRun, edits, trip,
                   probe, history, refresher>>

\* handleUIMessage, "cancel": figma.closePlugin()
OnCancel ==
    /\ HostReady
    /\ Head(inbox).type = "cancel"
    /\ Take(NO_NODE)
    /\ closed' = TRUE
    /\ UNCHANGED <<nodes, varHost, selection, handler, jumps, selEvents, outbox,
                   uiSize, viewport, sent, auditRun, analysisRun, edits, trip,
                   probe, history, refresher>>

\* handleUIMessage, "jump-to-node": jumpToNode(msg.nodeId) is called and not
\* awaited; it runs up to its lookup and handleUIMessage returns
OnJumpToNode ==
    /\ HostReady
    /\ Head(inbox).type = "jump-to-node"
    /\ Take(NO_NODE)
    /\ jumps' = jumps \cup {[seq |-> Head(inbox).seq, nodeId |-> Head(inbox).id]}
    /\ UNCHANGED <<nodes, varHost, selection, handler, selEvents, outbox,
                   closed, uiSize, viewport, sent, auditRun, analysisRun, edits, trip,
                   probe, history, refresher>>

\* the host settles the lookup of the variable and, when the variable is
\* there, of its collection
LookupSettles(id) ==
    /\ varHost[id].variable # "timeout"
    /\ varHost[id].variable = "value" => varHost[id].collection # "timeout"

\* setTimeout(() => reject(new Error("Timeout")), 3000): the event loop runs it
TimerFires == TRUE

\* a mutant: the lookup awaited alone, without the race against the timer
AwaitsLookupOnly(id) == LookupSettles(id)

\* await Promise.race([lookup, timeoutPromise]) returns or throws
RaceSettles(id) == LookupSettles(id) \/ TimerFires

\* the variable ids extractVariableBindings looks up for a node
BoundIds(node) ==
    {b.variableId : b \in Range(extractVariableBindings(nodes[node]))}

\* the lookups auditContainer awaits, one node after the other
AuditLookups(containerId) ==
    IF containerId = BAD_ID \/ ~IsContainer(getNodeById(containerId)) THEN {}
    ELSE UNION {BoundIds(n) : n \in Range(Retained(containerId))}

\* the lookups analyzeContainerContent awaits
AnalysisLookups(containerId) ==
    IF containerId = BAD_ID \/ ~IsContainer(getNodeById(containerId)) THEN {}
    ELSE LET fc == frameChildren(getNodeById(containerId)) IN
         UNION {BoundIds(n) : n \in UNION {Range(visibleNodes(fc[i])) : i \in 1..Len(fc)}}

\* the lookups a request awaits before its result is posted
Awaited(type, containerId) ==
    IF type = "audit-container" THEN AuditLookups(containerId)
    ELSE IF type = "analyze-section" THEN AnalysisLookups(containerId)
    ELSE {}

\* handleUIMessage, the three kinds that await: the activation is suspended
OnRequest(fault) ==
    /\ HostReady
    /\ Head(inbox).type \in RequestTypes
    /\ Head(inbox).type = "get-container-info" => fault = NO_NODE
    /\ Take(fault)
    /\ handler' = [busy |-> TRUE, seq |-> Head(inbox).seq, type |-> Head(inbox).type,
                   id |-> Head(inbox).id, fault |-> fault,
                   awaits |-> Awaited(Head(inbox).type, Head(inbox).id)]
    /\ UNCHANGED <<nodes, varHost, selection, jumps, selEvents, outbox,
                   closed, uiSize, viewport, sent, auditRun, analysisRun, edits, trip,
                   probe, history, refresher>>

\* handleUIMessage, "analyze-section", after the await: the result is posted
AnalyzeSectionDone ==
    /\ ~closed
    /\ handler # Idle
    /\ handler.type = "analyze-section"
    /\ \A id \in handler.awaits : RaceSettles(id)
    /\ postMessage("section-analysis",
                   analyzeContainerContent(handler.id, handler.fault), handler.seq)
    /\ handler' = Idle
    /\ UNCHANGED <<nodes, varHost, selection, inbox, jumps, selEvents, closed,
                   uiSize, viewport, sent, started, auditRun, analysisRun, edits, trip,
                   probe, history, refresher>>

\* handleUIMessage, "audit-container", after the await: the result is posted
AuditContainerDone ==
    /\ ~closed
    /\ handler # Idle
    /\ handler.type = "audit-container"
    /\ \A id \in handler.awaits : RaceSettles(id)
    /\ postMessage("audit-result", auditContainer(handler.id, handler.fault),
                   handler.seq)
    /\ handler' = Idle
    /\ UNCHANGED <<nodes, varHost, selection, inbox, jumps, selEvents, closed,
                   uiSize, viewport, sent, started, auditRun, analysisRun, edits, trip,
                   probe, history, refresher>>

\* a mutant: container-info is posted for a node of any kind
AnyNode(container) == container # NO_NODE

\* the test of the "get-container-info" branch on the looked-up node
HasContainerInfo(container) == IsContainer(container)

\* handleUIMessage, "get-container-info", after the await: container-info is
\* posted for a SECTION or FRAME; a lookup that throws is caught and logged
ContainerInfoDone ==
    /\ ~closed
    /\ handler # Idle
    /\ handler.type = "get-container-info"
    /\ IF handler.id # BAD_ID /\ HasContainerInfo(getNodeById(handler.id))
       THEN LET container == getNodeById(handler.id) IN
            postMessage("container-info",
                        [id |-> container, name |-> nodes[container].name,
                         containerType |-> nodes[container].type],
                        handler.seq)
       ELSE UNCHANGED outbox
    /\ handler' = Idle
    /\ UNCHANGED <<nodes, varHost, selection, inbox, jumps, selEvents, closed,
                   uiSize, viewport, sent, started, auditRun, analysisRun, edits, trip,
                   probe, history, refresher>>

\* the host rejects a selection that holds a node that is no scene node
SelectionThrows(node) == nodes[node].type = "PAGE"

\* a mutant: the catch block is missing and nothing is posted
JumpRethrows(j) == UNCHANGED outbox

\* the catch block of jumpToNode
JumpCatch(j) ==
    postMessage("node-jumped", [nodeName |-> "Error", nodeType |-> "Error"], j.seq)

\* a mutant: figma.viewport.scrollAndZoomIntoView([node]) of the earlier revision
ScrollAndZoomIntoView(node) == [center |-> node]

\* the viewport after a jump: this revision makes no viewport call
ViewportAfterJump(node) == viewport

\* a mutant: a jump to an unknown node clears the selection
ClearsSelection == <<>>

\* the selection after a jump whose identifier names no node: the else
\* branch posts "Unknown" and does not reach the selection write
SelectionIfUnknown == selection

\* jumpToNode(nodeId) after its lookup settled
jumpToNode(j) ==
    /\ ~closed
    /\ j \in jumps
    /\ jumps' = jumps \ {j}
    /\ IF j.nodeId = BAD_ID
       THEN /\ JumpCatch(j)
            /\ UNCHANGED <<selection, selEvents, viewport>>
       ELSE LET node == getNodeById(j.nodeId) IN
            IF node = NO_NODE
            THEN /\ postMessage("node-jumped",
                                [nodeName |-> "Unknown", nodeType |-> "Unknown"], j.seq)
                 /\ selection' = SelectionIfUnknown
                 /\ UNCHANGED <<selEvents, viewport>>
            ELSE IF SelectionThrows(node)
            THEN /\ JumpCatch(j)
                 /\ UNCHANGED <<selection, selEvents, viewport>>
            ELSE /\ selection' = <<node>>
                 /\ selEvents' = IF selection = <<node>> THEN selEvents
                                 ELSE Append(selEvents, "jump")
                 /\ viewport' = ViewportAfterJump(node)
                 /\ postMessage("node-jumped",
                                [nodeName |-> nodes[node].name,
                                 nodeType |-> nodes[node].type], j.seq)
    /\ UNCHANGED <<nodes, varHost, inbox, handler, closed, uiSize, sent, started,
                   auditRun, analysisRun, edits, trip,
                   probe, history, refresher>>

RECURSIVE NearestSection(_)
\* a mutant: findAncestorSection of the earlier revision, which stops at sections only
NearestSection(current) ==
    IF current = NO_NODE THEN NO_NODE
    ELSE IF nodes[current].type = "SECTION" THEN current
    ELSE NearestSection(nodes[current].parent)

RECURSIVE NearestContainer(_)
\* the while loop of getSelectedContainerId
NearestContainer(current) ==
    IF current = NO_NODE THEN NO_NODE
    ELSE IF nodes[current].type \in {"SECTION", "FRAME"} THEN current
    ELSE NearestContainer(nodes[current].parent)

\* getSelectedContainerId(); NO_NODE stands for null
getSelectedContainerId ==
    IF selection = <<>> THEN NO_NODE
    ELSE LET IsSectionOrFrame(n) == nodes[n].type \in {"SECTION", "FRAME"}
             found == Filter(selection, IsSectionOrFrame)
         IN IF found # <<>> THEN Head(found)
            ELSE NearestContainer(selection[1])

\* the largest number of selections the user makes
MaxSelects == 1

\* the selections the user makes: nothing, a frame in a section, a rectangle
\* directly in a section, a text in a frame, a rectangle on the page, and a
\* rectangle together with a frame
UserSelections == {<<>>, <<3>>, <<4>>, <<7>>, <<14>>, <<4, 3>>}

\* the user changes the selection in the host, which queues a selectionchange event
UserSelects(sel) ==
    /\ ~closed
    /\ edits < MaxSelects
    /\ sel # selection
    /\ selection' = sel
    /\ edits' = edits + 1
    /\ selEvents' = Append(selEvents, "user")
    /\ UNCHANGED <<nodes, varHost, inbox, handler, jumps, outbox, closed, uiSize, viewport,
                   sent, started, auditRun, analysisRun, trip,
                   probe, history, refresher>>

\* the selectionchange listener: handleSelectionChange(); `cause` tells what
\* changed the selection and is kept for the properties only
handleSelectionChange ==
    /\ ~closed
    /\ selEvents # <<>>
    /\ selEvents' = Tail(selEvents)
    /\ outbox' = Append(outbox, [type |-> "selection-section",
                                  payload |-> [sectionId |-> getSelectedContainerId],
                                  re |-> 0, cause |-> Head(selEvents)])
    /\ UNCHANGED <<nodes, varHost, selection, inbox, handler, jumps, closed,
                   uiSize, viewport, sent, started, auditRun, analysisRun, edits, trip,
                   probe, history, refresher>>

Init ==
    /\ nodes = SmallDoc(InstanceBindings.catalogue, MainComponents.local)
    /\ varHost = [id \in VarIds |-> Resolved]
    /\ RouterAtRest
    /\ auditRun = NoRun
    /\ analysisRun = NoRun
    /\ edits = 0
    /\ trip = NoTrip
    /\ probe = NoProbe
    /\ history = NoHistory
    /\ refresher = AtStart

Next ==
    \/ \E m \in UIMessages : Send(m)
    \/ OnResize
    \/ OnGetSections
    \/ OnCancel
    \/ OnJumpToNode
    \/ \E f \in RouterFaults : OnRequest(f)
    \/ AnalyzeSectionDone
    \/ AuditContainerDone
    \/ ContainerInfoDone
    \/ \E j \in jumps : jumpToNode(j)
    \/ handleSelectionChange

\* the router serving the messages of the UI
Spec == Init /\ [][Next]_vars

\* the largest number of jump-to-node messages followed next to the user's selections
MaxJumps == 1

JumpMessages ==
    {[type |-> "jump-to-node", id |-> i, size |-> InitialSize] : i \in MsgIds}

NextSelection ==
    \/ \E m \in JumpMessages : sent < MaxJumps /\ Send(m)
    \/ OnJumpToNode
    \/ \E j \in jumps : jumpToNode(j)
    \/ \E sel \in UserSelections : UserSelects(sel)
    \/ handleSelectionChange

\* the user selecting layers while the UI asks for jumps
SpecSelection == Init /\ [][NextSelection]_vars

---------------------------------------------------------------------------
(* Notions the properties are stated with *)

Ids(records) == {records[i].id : i \in 1..Len(records)}

\* the nodes an audit result reports
AuditedNodes(r) == Range(r.withVariables) \cup Range(r.withoutVariables)
AuditedIds(r) == Ids(r.withVariables) \cup Ids(r.withoutVariables)

\* the nodes an analysis result lists
AnalyzedIds(r) == UNION {Ids(r.frames[i].nodes) : i \in 1..Len(r.frames)}

RECURSIVE PathTo(_)
\* the ids from the top of the document down to n
PathTo(n) == IF n = NO_NODE THEN <<>> ELSE PathTo(nodes[n].parent) \o <<n>>

StrictAncestors(n) == Range(PathTo(n)) \ {n}

IndexIn(s, x) == CHOOSE i \in 1..Len(s) : s[i] = x

\* a comes before b in the pre-order of the document
Precedes(a, b) ==
    LET pa == PathTo(a)
        pb == PathTo(b)
        k == CHOOSE i \in 0..Min(Len(pa), Len(pb)) :
                /\ \A j \in 1..i : pa[j] = pb[j]
                /\ i < Min(Len(pa), Len(pb)) => pa[i + 1] # pb[i + 1]
    IN /\ a # b
       /\ k > 0
       /\ IF k = Len(pa) THEN TRUE
          ELSE IF k = Len(pb) THEN FALSE
          ELSE IndexIn(nodes[pa[k]].children, pa[k + 1])
                 < IndexIn(nodes[pa[k]].children, pb[k + 1])

AuditDone == auditRun.fresh /\ auditRun.result # Null
AnalysisDone == analysisRun.fresh /\ analysisRun.result # Null

---------------------------------------------------------------------------
(* Edits of the document between two runs of the analyses: the user turns  *)
(* the visible flag of a layer off or on while both reports are up to      *)
(* date, and asks for the reports again.                                   *)

\* the largest number of edits followed
MaxEdits == 2

\* the node ids a report names
ReportedByAudit(r) ==
    (AuditedIds(r) \cup {r.lintFindings[i].nodeId : i \in 1..Len(r.lintFindings)})
        \ {NO_NODE}

Stale(run) == [run EXCEPT !.fresh = FALSE]

\* the record of a hide / show round trip, advanced by an edit of node n
TripAfter(n) ==
    IF /\ trip.stage = "none"
       /\ nodes[n].visible
       /\ AuditDone /\ AnalysisDone
    THEN [stage |-> "hidden", node |-> n, containerId |-> auditRun.containerId,
          auditBefore |-> ReportedByAudit(auditRun.result),
          analysisBefore |-> AnalyzedIds(analysisRun.result),
          auditHidden |-> {}, analysisHidden |-> {}]
    ELSE IF /\ trip.stage = "hidden"
            /\ n = trip.node
            /\ AuditDone /\ AnalysisDone
            /\ auditRun.containerId = trip.containerId
    THEN [trip EXCEPT !.stage = "restored",
                      !.auditHidden = ReportedByAudit(auditRun.result),
                      !.analysisHidden = AnalyzedIds(analysisRun.result)]
    ELSE [trip EXCEPT !.stage = "other"]

\* the user flips the visible flag of layer n in the host
ToggleVisible(n) ==
    /\ edits < MaxEdits
    /\ HasVisibleFlag(n)
    /\ AuditDone /\ AnalysisDone
    /\ nodes' = [nodes EXCEPT ![n].visible = ~nodes[n].visible]
    /\ edits' = edits + 1
    /\ trip' = TripAfter(n)
    /\ auditRun' = Stale(auditRun)
    /\ analysisRun' = Stale(analysisRun)
    /\ UNCHANGED <<varHost, selection, inbox, handler, jumps, selEvents, outbox,
                   closed, uiSize, viewport, sent, started, probe, history, refresher>>

\* the same request is made again after an edit
SameRequest(containerId) == trip.stage # "none" => containerId = trip.containerId

InitVisibility ==
    /\ nodes \in {SmallDoc(InstanceBindings[b], MainComponents.local) :
                    b \in DOMAIN InstanceBindings}
    /\ varHost = [id \in VarIds |-> Resolved]
    /\ RouterAtRest
    /\ auditRun = NoRun
    /\ analysisRun = NoRun
    /\ edits = 0
    /\ trip = NoTrip
    /\ probe = NoProbe
    /\ history = NoHistory
    /\ refresher = AtStart

NextVisibility ==
    \/ \E c \in RequestIds : SameRequest(c) /\ RunAudit(c, NO_NODE)
    \/ \E c \in RequestIds : SameRequest(c) /\ RunAnalysis(c, NO_NODE)
    \/ \E n \in NodeIds : ToggleVisible(n)

\* the analyses re-run on a document whose layers are hidden and shown
SpecVisibility == InitVisibility /\ [][NextVisibility]_vars

---------------------------------------------------------------------------
\* C1: auditContainer processes at most 50 nodes.  The nodes it collects are
\* in the pre-order of the document; when more than 50 are collected, the
\* processed nodes are exactly the first 50 of them, totalAuditableNodes is
\* 50, and no later node is in withVariables, in withoutVariables or the
\* subject of a finding.
C1_AuditNodeCap ==
    AuditDone =>
        LET r == auditRun.result
            all == collectAuditableNodes(auditRun.containerId)
            first == {all[i] : i \in 1..Min(Len(all), 50)}
            omitted == {all[i] : i \in 51..Len(all)}
        IN /\ r.summary.totalAuditableNodes <= 50
           /\ Len(r.withVariables) + Len(r.withoutVariables) <= 50
           /\ \A i \in 1..(Len(all) - 1) : Precedes(all[i], all[i + 1])
           /\ AuditedIds(r) = first
           /\ Len(all) > 50 =>
                /\ r.summary.totalAuditableNodes = 50
                /\ Cardinality(AuditedIds(r)) = 50
                /\ omitted # {}
                /\ omitted \cap AuditedIds(r) = {}
                /\ \A i \in 1..Len(r.lintFindings) : r.lintFindings[i].nodeId \notin omitted
                /\ \A a \in AuditedNodes(r) : \A i \in 1..Len(a.lintFindings) :
                      a.lintFindings[i].nodeId \notin omitted

\* C1 witness: an audit of a frame with more than 50 eligible nodes was made
C1_Witness ==
    /\ AuditDone
    /\ Len(collectAuditableNodes(auditRun.containerId)) > 50
    /\ auditRun.result.summary.totalAuditableNodes = 50

---------------------------------------------------------------------------
\* the containers a request can name
ResolvesToContainer(id) ==
    id \in NodeIds /\ nodes[id].type \in {"SECTION", "FRAME"}

\* the lookup getVariableInfo makes for a binding failed: the variable lookup
\* returned nothing, threw or timed out, or the collection lookup threw or timed out
LookupFailed(b) ==
    LET h == varHost[b.variableId]
    IN h.variable # "value" \/ h.collection \in {"throws", "timeout"}

IsUnresolvableFinding(f) == f.rule = "UnresolvableVariable"

\* C2 as claimed: coverage is withVariablesCount / totalAuditableNodes x 100,
\* lies in [0,100], and is 0 exactly when totalAuditableNodes is 0.
C2_Original ==
    AuditDone =>
        LET sm == auditRun.result.summary
            c == auditRun.result.coveragePercentage
        IN /\ sm.totalAuditableNodes > 0 =>
                c.num * sm.totalAuditableNodes = sm.withVariablesCount * 100 * c.den
           /\ c.den > 0 /\ 0 <= c.num /\ c.num <= 100 * c.den
           /\ (c.num = 0) <=> (sm.totalAuditableNodes = 0)

\* C2 amended: coverage is withVariablesCount / totalAuditableNodes x 100 (0
\* when there are no auditable nodes), lies in [0,100], and is 0 exactly when
\* withVariablesCount is 0.
C2_Coverage ==
    AuditDone =>
        LET sm == auditRun.result.summary
            c == auditRun.result.coveragePercentage
        IN /\ sm.totalAuditableNodes > 0 =>
                c.num * sm.totalAuditableNodes = sm.withVariablesCount * 100 * c.den
           /\ sm.totalAuditableNodes = 0 => c.num = 0
           /\ c.den > 0 /\ 0 <= c.num /\ c.num <= 100 * c.den
           /\ (c.num = 0) <=> (sm.withVariablesCount = 0)
           /\ sm.withVariablesCount = Len(auditRun.result.withVariables)
           /\ sm.totalAuditableNodes =
                Len(auditRun.result.withVariables) + Len(auditRun.result.withoutVariables)

\* C2 witness: an audit of nodes none of which has a binding reports coverage 0
C2_Witness ==
    /\ AuditDone
    /\ auditRun.result.summary.totalAuditableNodes > 0
    /\ auditRun.result.summary.withVariablesCount = 0
    /\ auditRun.result.coveragePercentage.num = 0

---------------------------------------------------------------------------
\* the nodes the analysis excludes for a frame as nested in a bound component
UnderBoundComponent(n, frame) ==
    \E a \in StrictAncestors(n) :
        /\ frame \in StrictAncestors(a)
        /\ nodes[a].type \in {"INSTANCE", "COMPONENT"}
        /\ DOMAIN nodes[a].boundVariables # {}

CountOf(infos, P(_)) == Cardinality({j \in 1..Len(infos) : P(infos[j])})

\* C4: in analyzeContainerContent a node under an INSTANCE or COMPONENT that
\* lies strictly below the frame root and has a binding is in no frame's
\* node list and in no count; auditContainer does not exclude it: an
\* allow-listed, visible such node is audited.
C4_NestedComponentExclusion ==
    AnalysisDone =>
        LET r == analysisRun.result IN
        /\ \A i \in 1..Len(r.frames) :
              LET f == r.frames[i]
                  IsText(x) == x.type = "TEXT"
                  IsInstance(x) == x.type = "INSTANCE"
                  IsComponent(x) == x.type = "COMPONENT"
                  IsRemote(x) ==
                      \/ x.type = "INSTANCE"
                           /\ nodes[x.id].mainComponent.outcome = "value"
                           /\ nodes[x.id].mainComponent.remote
                      \/ x.type = "COMPONENT" /\ nodes[x.id].component.remote
                  IsLocal(x) ==
                      \/ x.type = "INSTANCE"
                           /\ nodes[x.id].mainComponent.outcome = "value"
                           /\ ~nodes[x.id].mainComponent.remote
                      \/ x.type = "COMPONENT" /\ ~nodes[x.id].component.remote
              IN /\ \A n \in NodeIds : UnderBoundComponent(n, f.id) => n \notin Ids(f.nodes)
                 /\ f.totalNodes = Len(f.nodes)
                 /\ f.textNodesCount = CountOf(f.nodes, IsText)
                 /\ f.instanceNodesCount = CountOf(f.nodes, IsInstance)
                 /\ f.componentNodesCount = CountOf(f.nodes, IsComponent)
                 /\ f.remoteComponentsCount = CountOf(f.nodes, IsRemote)
                 /\ f.localComponentsCount = CountOf(f.nodes, IsLocal)
        /\ r.totalNodes = SumField(r.frames, "totalNodes")
        /\ r.totalTextNodes = SumField(r.frames, "textNodesCount")
        /\ r.totalInstanceNodes = SumField(r.frames, "instanceNodesCount")
        /\ r.totalComponentNodes = SumField(r.frames, "componentNodesCount")
        /\ (AuditDone /\ auditRun.containerId = analysisRun.containerId
              /\ auditRun.result.summary.totalAuditableNodes < 50) =>
              \A i \in 1..Len(r.frames) : \A n \in NodeIds :
                 ( /\ UnderBoundComponent(n, r.frames[i].id)
                   /\ nodes[n].type \in AUDITABLE_NODE_TYPES
                   /\ \A a \in Range(PathTo(n)) : nodes[a].visible )
                 => n \in AuditedIds(auditRun.result)

\* C4 witness: a node under a bound instance is audited and not analyzed
C4_Witness ==
    /\ AnalysisDone /\ AuditDone
    /\ auditRun.containerId = analysisRun.containerId
    /\ \E i \in 1..Len(analysisRun.result.frames) : \E n \in NodeIds :
          /\ UnderBoundComponent(n, analysisRun.result.frames[i].id)
          /\ n \in AuditedIds(auditRun.result)
          /\ n \notin AnalyzedIds(analysisRun.result)

---------------------------------------------------------------------------
\* C5 as claimed: on every audited node the UnresolvableVariable findings
\* correspond one to one, in order, to the bindings whose lookup failed; no
\* binding whose lookup succeeded yields one.
C5_Original ==
    AuditDone =>
        \A a \in AuditedNodes(auditRun.result) :
            LET fs == SelectSeq(a.lintFindings, IsUnresolvableFinding)
                failed == SelectSeq(a.variableBindings, LookupFailed)
            IN /\ Len(fs) = Len(failed)
               /\ \A i \in 1..Len(fs) :
                     /\ fs[i].property = failed[i].property
                     /\ fs[i].severity = "error"

HasPlaceholderName(b) == StartsWith(b.variableName, "[Variable ID:")

\* C5 amended: the UnresolvableVariable findings (severity error) correspond
\* one to one, in order, to the bindings whose variableName begins with
\* "[Variable ID:"; every binding whose lookup failed has such a name, and a
\* binding whose lookup succeeded has one only when the variable's own name
\* is empty or begins with "[Variable ID:".
C5_Unresolvable ==
    AuditDone =>
        \A a \in AuditedNodes(auditRun.result) :
            LET fs == SelectSeq(a.lintFindings, IsUnresolvableFinding)
                flagged == SelectSeq(a.variableBindings, HasPlaceholderName)
            IN /\ Len(fs) = Len(flagged)
               /\ \A i \in 1..Len(fs) :
                     /\ fs[i].property = flagged[i].property
                     /\ fs[i].severity = "error"
               /\ \A i \in 1..Len(a.variableBindings) :
                     LET b == a.variableBindings[i] IN
                     /\ LookupFailed(b) => HasPlaceholderName(b)
                     /\ (~LookupFailed(b) /\ HasPlaceholderName(b)) =>
                           \/ varHost[b.variableId].name = ""
                           \/ StartsWith(varHost[b.variableId].name, "[Variable ID:")

\* C5 witness: a binding whose lookup failed got its finding
C5_Witness ==
    /\ AuditDone
    /\ \E a \in AuditedNodes(auditRun.result) :
          /\ \E i \in 1..Len(a.variableBindings) : LookupFailed(a.variableBindings[i])
          /\ \E i \in 1..Len(a.lintFindings) : IsUnresolvableFinding(a.lintFindings[i])

---------------------------------------------------------------------------
\* C7 as claimed: an error raised while one retained node is processed does
\* not abort the audit; the result is null only when the container does not
\* resolve to a SECTION or FRAME.
C7_Original ==
    auditRun.fresh =>
        ((auditRun.result = Null) <=> ~ResolvesToContainer(auditRun.containerId))

---------------------------------------------------------------------------
\* the last eight characters of each variable id of the documents
Last8Of(id) ==
    CASE id = VarShort -> "V:9"
      [] id = VarEight -> "ID:12:34"
      [] id = VarLong -> "eID:7:21"

\* the entries of a node's raw binding map that carry an id under a catalogue property
BindingEntries(n) ==
    LET raw == nodes[n].boundVariables
        props == Range(DESIGN_PROPERTIES) \cap DOMAIN raw
    IN {<<p, -1, raw[p].id>> : p \in {q \in props : ~raw[q].isArray /\ raw[q].hasId}}
       \cup UNION {{<<p, i - 1, raw[p].items[i].id>> :
                       i \in {j \in 1..Len(raw[p].items) : raw[p].items[j].hasId}} :
                   p \in {q \in props : raw[q].isArray}}

ExtractedAsClaimed(n, bs) ==
    /\ {<<bs[i].property, bs[i].arrayIndex, bs[i].variableId>> : i \in 1..Len(bs)}
         = BindingEntries(n)
    /\ Len(bs) = Cardinality(BindingEntries(n))
    /\ \A i \in 1..Len(bs) :
          LookupFailed(bs[i]) =>
             /\ bs[i].variableName = "[Variable ID: " \o Last8Of(bs[i].variableId) \o "]"
             /\ bs[i].collectionName = "Unknown Collection"

\* C8: extractVariableBindings emits exactly one binding for every entry that
\* carries an id under a catalogue property, whatever the lookup does; a
\* failed lookup gives the name "[Variable ID: <last 8 characters>]" and the
\* collection "Unknown Collection".
C8_ExtractNeverDrops ==
    /\ AuditDone =>
          \A a \in AuditedNodes(auditRun.result) : ExtractedAsClaimed(a.id, a.variableBindings)
    /\ AnalysisDone =>
          \A i \in 1..Len(analysisRun.result.frames) :
             \A j \in 1..Len(analysisRun.result.frames[i].nodes) :
                LET x == analysisRun.result.frames[i].nodes[j]
                IN ExtractedAsClaimed(x.id, x.variableBindings)

\* C8 witness: a node with a timed-out lookup of a long id and a resolved one
C8_Witness ==
    /\ AuditDone
    /\ \E a \in AuditedNodes(auditRun.result) :
          /\ \E i \in 1..Len(a.variableBindings) :
                /\ a.variableBindings[i].variableId = VarLong
                /\ varHost[VarLong].variable = "timeout"
                /\ a.variableBindings[i].variableName = "[Variable ID: eID:7:21]"
          /\ \E i \in 1..Len(a.variableBindings) : ~LookupFailed(a.variableBindings[i])

---------------------------------------------------------------------------
\* the frame roots of a container: its FRAME children for a section, itself otherwise
FrameRootsOf(container) == Range(frameChildren(container))

\* n lies in the subtree of frame root f and is hidden there: its own flag
\* is off, or the flag of an ancestor strictly between n and f is off
HiddenUnder(n, f) ==
    /\ n = f \/ f \in StrictAncestors(n)
    /\ \/ ~nodes[n].visible
       \/ \E a \in StrictAncestors(n) : f \in StrictAncestors(a) /\ ~nodes[a].visible

HiddenIn(n, container) == \E f \in FrameRootsOf(container) : HiddenUnder(n, f)

\* C3: a node whose own visible flag is off, or that has an ancestor strictly
\* between it and its frame root whose flag is off, is named nowhere in the
\* audit (withVariables, withoutVariables, lintFindings) and nowhere in the
\* analysis (FrameInfo.nodes); once the flag is set back and the same
\* request is made again with no other change, every node reported before
\* the layer was hidden is reported again.
C3_VisibilityExclusion ==
    /\ AuditDone =>
          \A n \in NodeIds :
              HiddenIn(n, auditRun.containerId)
                  => n \notin ReportedByAudit(auditRun.result)
    /\ AnalysisDone =>
          \A n \in NodeIds :
              HiddenIn(n, analysisRun.containerId)
                  => n \notin AnalyzedIds(analysisRun.result)
    /\ (trip.stage = "restored" /\ AuditDone) =>
          ReportedByAudit(auditRun.result) = trip.auditBefore
    /\ (trip.stage = "restored" /\ AnalysisDone) =>
          AnalyzedIds(analysisRun.result) = trip.analysisBefore

\* a group was hidden and shown again: a node below it was in both reports,
\* left both while the group was hidden (the group left the analysis too),
\* and is back in both after the same requests were made again
C3_Witness ==
    /\ trip.stage = "restored"
    /\ AuditDone /\ AnalysisDone
    /\ nodes[trip.node].visible
    /\ trip.node \in trip.analysisBefore \ trip.analysisHidden
    /\ \E m \in NodeIds :
          /\ trip.node \in StrictAncestors(m)
          /\ m \in trip.auditBefore \cap trip.analysisBefore
          /\ m \notin trip.auditHidden \cup trip.analysisHidden
          /\ m \in ReportedByAudit(auditRun.result)
          /\ m \in AnalyzedIds(analysisRun.result)

---------------------------------------------------------------------------
(* Notions for the router *)

\* the messages posted in answer to request seq, in the order posted
AnswersTo(seq) ==
    LET Answers(e) == e.re = seq IN Filter(outbox, Answers)

\* the handling of a started message is over: its activation has ended and
\* the jumpToNode call it made, if any, has run to its end
Finished(m) ==
    /\ handler = Idle \/ handler.seq # m.seq
    /\ \A j \in jumps : j.seq # m.seq

\* processing of the request threw after the container was found
Threw(m) ==
    IF m.type = "audit-container" THEN AuditThrows(m.id, m.fault)
    ELSE AnalysisThrows(m.id, m.fault)

ResponseType(type) ==
    CASE type = "analyze-section" -> "section-analysis"
      [] type = "audit-container" -> "audit-result"
      [] type = "get-container-info" -> "container-info"
      [] type = "jump-to-node" -> "node-jumped"
      [] OTHER -> "none"

\* C6: analyzeContainerContent and auditContainer give null when the
\* identifier resolves to no node or to a node that is neither SECTION nor
\* FRAME; when it resolves to a SECTION or FRAME and processing does not
\* throw, they give a result that carries the id and the name of that node;
\* either way the router posts the one section-analysis / audit-result
\* message, with a null payload in the null case.
C6_NullForInvalidContainer ==
    \A k \in 1..Len(started) :
        LET m == started[k]
            answers == AnswersTo(m.seq)
        IN m.type \in {"analyze-section", "audit-container"} =>
             /\ Finished(m) => Len(answers) = 1
             /\ \A i \in 1..Len(answers) :
                  LET e == answers[i] IN
                  /\ e.type = ResponseType(m.type)
                  /\ ~ResolvesToContainer(m.id) => e.payload = Null
                  /\ (ResolvesToContainer(m.id) /\ ~Threw(m)) =>
                        /\ e.payload # Null
                        /\ IF m.type = "analyze-section"
                           THEN /\ e.payload.sectionId = m.id
                                /\ e.payload.sectionName = nodes[m.id].name
                           ELSE /\ e.payload.containerId = m.id
                                /\ e.payload.containerName = nodes[m.id].name

\* an audit of a node that is no container was answered with a null payload
\* and an analysis of a container with a result
C6_Witness ==
    \E a, b \in 1..Len(started) :
        /\ started[a].type = "audit-container"
        /\ started[a].id \in NodeIds
        /\ ~ResolvesToContainer(started[a].id)
        /\ Len(AnswersTo(started[a].seq)) = 1
        /\ AnswersTo(started[a].seq)[1].payload = Null
        /\ started[b].type = "analyze-section"
        /\ ResolvesToContainer(started[b].id)
        /\ Len(AnswersTo(started[b].seq)) = 1
        /\ AnswersTo(started[b].seq)[1].payload # Null

\* the number of responses the claim promises for a message
PromisedResponses(m) ==
    IF m.type \in RequestTypes \cup {"jump-to-node"} THEN 1 ELSE 0

\* the number of responses a message gets
ExpectedResponses(m) ==
    IF m.type = "get-container-info" /\ ~ResolvesToContainer(m.id) THEN 0
    ELSE PromisedResponses(m)

\* every response answers a started message and is of the corresponding kind
ResponsesCorrespond ==
    \A i \in 1..Len(outbox) :
        outbox[i].re > 0 =>
            \E k \in 1..Len(started) :
                /\ started[k].seq = outbox[i].re
                /\ outbox[i].type = ResponseType(started[k].type)

C10_Original ==
    /\ \A k \in 1..Len(started) : k < Len(started) => Finished(started[k])
    /\ \A i, j \in 1..Len(outbox) :
          (i < j /\ outbox[i].re > 0 /\ outbox[j].re > 0)
              => outbox[i].re <= outbox[j].re

---------------------------------------------------------------------------
(* Notions for the selection notifications *)

\* the selection-section messages posted for events of one cause
Broadcasts(cause) ==
    LET Caused(e) == e.type = "selection-section" /\ e.cause = cause
    IN Filter(outbox, Caused)

\* the queued selectionchange events of one cause
Pending(cause) ==
    LET Caused(c) == c = cause IN Filter(selEvents, Caused)

\* C11: the selection change made by jumpToNode's own selection write is not
\* broadcast: no selection-section message is posted for it, while every
\* selection change made by the user gets one selection-section message.
C11_Original ==
    /\ Broadcasts("jump") = <<>>
    /\ ~closed => Len(Broadcasts("user")) + Len(Pending("user")) = edits

---------------------------------------------------------------------------
(* Notions for jumpToNode *)

\* the step in which the jumpToNode call j runs to its end
JumpEnds(j) == j \in jumps /\ jumps' = jumps \ {j}

\* the step posts exactly one message, and it is this one
PostsOnly(type, payload) ==
    /\ Len(outbox') = Len(outbox) + 1
    /\ SubSeq(outbox', 1, Len(outbox)) = outbox
    /\ outbox'[Len(outbox')].type = type
    /\ outbox'[Len(outbox')].payload = payload

\* the identifier resolves to no node
Unresolved(id) == id # BAD_ID /\ id \notin NodeIds

\* the lookup rejects, or the host refuses the node as a selection
JumpThrows(id) == id = BAD_ID \/ (id \in NodeIds /\ nodes[id].type = "PAGE")

\* C12: a jumpToNode call whose identifier resolves to no node posts exactly
\* one node-jumped message with nodeName "Unknown" and nodeType "Unknown"
\* and leaves the selection as it was; a call whose lookup or selection
\* write throws posts exactly one node-jumped message with nodeName "Error"
\* and nodeType "Error"; in both cases the call ends and the plugin goes on.
C12_JumpFailure ==
    [][\A j \in jumps :
          JumpEnds(j) =>
            /\ Unresolved(j.nodeId) =>
                  /\ PostsOnly("node-jumped",
                               [nodeName |-> "Unknown", nodeType |-> "Unknown"])
                  /\ selection' = selection
                  /\ selEvents' = selEvents
            /\ JumpThrows(j.nodeId) =>
                  /\ PostsOnly("node-jumped",
                               [nodeName |-> "Error", nodeType |-> "Error"])
                  /\ selection' = selection
            /\ (Unresolved(j.nodeId) \/ JumpThrows(j.nodeId)) =>
                  /\ closed' = closed
                  /\ handler' = handler]_vars

\* the user had selected a layer, a jump to an identifier that resolves to
\* nothing has ended, "Unknown" was posted for it and the layer is still selected
C12_Witness ==
    /\ selection # <<>>
    /\ edits = 1
    /\ \E k \in 1..Len(started) :
          /\ started[k].type = "jump-to-node"
          /\ Unresolved(started[k].id)
          /\ Finished(started[k])
          /\ Len(AnswersTo(started[k].seq)) = 1
          /\ AnswersTo(started[k].seq)[1].payload =
                [nodeName |-> "Unknown", nodeType |-> "Unknown"]

\* C13: a jumpToNode call whose identifier resolves to a node (that the host
\* accepts as a selection) sets the selection to exactly that node, leaves
\* the viewport as it was, and posts one node-jumped message with the name
\* and the kind of the node.
C13_JumpSelects ==
    [][\A j \in jumps :
          (JumpEnds(j) /\ j.nodeId \in NodeIds /\ ~JumpThrows(j.nodeId)) =>
            /\ selection' = <<j.nodeId>>
            /\ viewport' = viewport
            /\ PostsOnly("node-jumped",
                         [nodeName |-> nodes[j.nodeId].name,
                          nodeType |-> nodes[j.nodeId].type])]_vars

\* the user had selected something else, a jump to a layer has ended: the
\* layer is the selection and its name and kind were posted
C13_Witness ==
    /\ edits = 1
    /\ Pending("user") = <<>>
    /\ \E k \in 1..Len(started) :
          /\ started[k].type = "jump-to-node"
          /\ started[k].id \in NodeIds
          /\ Finished(started[k])
          /\ selection = <<started[k].id>>
          /\ Len(Broadcasts("jump")) + Len(Pending("jump")) = 1
          /\ Len(AnswersTo(started[k].seq)) = 1
          /\ AnswersTo(started[k].seq)[1].payload =
                [nodeName |-> nodes[started[k].id].name,
                 nodeType |-> nodes[started[k].id].type]

\* C13 as stated: a jumpToNode call whose identifier resolves to a node, of
\* whatever kind, sets the selection to exactly that node, leaves the
\* viewport as it was, and posts one node-jumped message with the name and
\* the kind of the node.
C13_Original ==
    [][\A j \in jumps :
          (JumpEnds(j) /\ j.nodeId \in NodeIds) =>
            /\ selection' = <<j.nodeId>>
            /\ viewport' = viewport
            /\ PostsOnly("node-jumped",
                         [nodeName |-> nodes[j.nodeId].name,
                          nodeType |-> nodes[j.nodeId].type])]_vars

---------------------------------------------------------------------------
\* the SECTION and FRAME nodes on the way from the top of the document to n
ContainersAbove(n) ==
    LET IsSectionOrFrame(a) == nodes[a].type \in {"SECTION", "FRAME"}
    IN Filter(PathTo(n), IsSectionOrFrame)

\* what the claim gives for a selection; NO_NODE stands for null
ClaimedContainer(sel) ==
    IF sel = <<>> THEN NO_NODE
    ELSE IF \E i \in 1..Len(sel) : nodes[sel[i]].type \in {"SECTION", "FRAME"}
    THEN sel[CHOOSE i \in 1..Len(sel) :
                 /\ nodes[sel[i]].type \in {"SECTION", "FRAME"}
                 /\ \A k \in 1..(i - 1) : nodes[sel[k]].type \notin {"SECTION", "FRAME"}]
    ELSE IF ContainersAbove(sel[1]) # <<>>
    THEN ContainersAbove(sel[1])[Len(ContainersAbove(sel[1]))]
    ELSE NO_NODE

\* C14: getSelectedContainerId gives null for an empty selection, else the
\* first selected node that is a SECTION or FRAME, else the nearest SECTION
\* or FRAME above the first selected node, else null; a selected frame in a
\* section gives the frame, a rectangle directly in a section the section.
C14_SelectedContainer ==
    /\ getSelectedContainerId = ClaimedContainer(selection)
    /\ \A n \in NodeIds :
          selection = <<n>> =>
            /\ (nodes[n].type = "FRAME" /\ nodes[nodes[n].parent].type = "SECTION")
                  => getSelectedContainerId = n
            /\ (nodes[n].type = "RECTANGLE" /\ nodes[nodes[n].parent].type = "SECTION")
                  => getSelectedContainerId = nodes[n].parent

\* the user selected a text inside a frame of a section and the frame was
\* reported in a selection-section message
C14_Witness ==
    /\ Len(selection) = 1
    /\ nodes[selection[1]].type = "TEXT"
    /\ selEvents = <<>>
    /\ outbox # <<>>
    /\ outbox[Len(outbox)].type = "selection-section"
    /\ outbox[Len(outbox)].payload.sectionId = nodes[selection[1]].parent
    /\ nodes[nodes[selection[1]].parent].type = "FRAME"
    /\ nodes[nodes[nodes[selection[1]].parent].parent].type = "SECTION"

---------------------------------------------------------------------------
\* C15: every audited node is classified NO_VARIABLES when it has no binding
\* and USES_VARIABLES_LOCAL when it has one or more; no node is classified
\* USES_VARIABLES_GLOBAL or USES_VARIABLES_MIXED, hasGlobalVariables is
\* false on every node, withGlobalVariablesCount is 0 and
\* withLocalVariablesCount equals withVariablesCount.
C15_LocalOnly ==
    AuditDone =>
      LET r == auditRun.result IN
      /\ \A n \in AuditedNodes(r) :
            /\ n.variableBindings = <<>> => n.classification = "NO_VARIABLES"
            /\ n.variableBindings # <<>> => n.classification = "USES_VARIABLES_LOCAL"
            /\ n.classification \notin {"USES_VARIABLES_GLOBAL", "USES_VARIABLES_MIXED"}
            /\ n.hasGlobalVariables = FALSE
            /\ n.hasLocalVariables = (n.variableBindings # <<>>)
      /\ r.summary.withGlobalVariablesCount = 0
      /\ r.summary.withLocalVariablesCount = r.summary.withVariablesCount

\* an audit reported a node with several bindings, classified local, next
\* to a node with none
C15_Witness ==
    /\ AuditDone
    /\ \E n, m \in AuditedNodes(auditRun.result) :
          /\ Len(n.variableBindings) > 1
          /\ n.classification = "USES_VARIABLES_LOCAL"
          /\ m.variableBindings = <<>>
          /\ m.classification = "NO_VARIABLES"
    /\ auditRun.result.summary.withLocalVariablesCount > 0

---------------------------------------------------------------------------
(* Calls of the classifier: getPropertyGroup on a property name, and       *)
(* groupBindings on a short list of bindings                               *)

\* names outside the catalogue that exercise every arm of the fallback, and
\* names that come close to an arm without matching it
ExtraPropertyNames ==
    {"dropShadow.radius", "effect.0", "innerShadow.y", "layerBlur.radius",
     "backgroundBlur.radius", "DROP_SHADOW", "LAYER_BLUR", "customFooBar",
     "shadowColor", "Effect.0", "dropShadow", "padding", "Fills", ""}

PropertyNames == Range(DESIGN_PROPERTIES) \cup ExtraPropertyNames

MaxBindings == 3

\* a binding of variable VarShort on property p, as extractVariableBindings makes it
BindingOn(p) ==
    [property |-> p, variableId |-> VarShort,
     variableName |-> "color/primary", collectionName |-> "Brand",
     bindingType |-> "normal", arrayIndex |-> -1,
     variableType |-> "design", isAlias |-> FALSE]

GroupInputs ==
    {"fills", "paddingLeft", "dropShadow.radius", "customFooBar"}

BindingLists ==
    UNION { [1..n -> {BindingOn(p) : p \in GroupInputs}] : n \in 0..MaxBindings }

CallGetPropertyGroup(property) ==
    /\ probe' = [fn |-> "getPropertyGroup", arg |-> property,
                 result |-> getPropertyGroup(property)]
    /\ UNCHANGED <<nodes, varHost, selection, inbox, handler, jumps, selEvents, outbox,
                   closed, uiSize, viewport, sent, started, auditRun, analysisRun,
                   edits, trip, history, refresher>>

CallGroupBindings(bindings) ==
    /\ probe' = [fn |-> "groupBindings", arg |-> bindings,
                 result |-> groupBindings(bindings)]
    /\ UNCHANGED <<nodes, varHost, selection, inbox, handler, jumps, selEvents, outbox,
                   closed, uiSize, viewport, sent, started, auditRun, analysisRun,
                   edits, trip, history, refresher>>

\* analyzeNode is applied to a scene node of the document
CallAnalyzeNode(node) ==
    /\ nodes[node].type # "PAGE"
    /\ probe' = [fn |-> "analyzeNode", arg |-> node, result |-> analyzeNode(node)]
    /\ UNCHANGED <<nodes, varHost, selection, inbox, handler, jumps, selEvents, outbox,
                   closed, uiSize, viewport, sent, started, auditRun, analysisRun,
                   edits, trip, history, refresher>>

NextClassifier ==
    \/ \E property \in PropertyNames : CallGetPropertyGroup(property)
    \/ \E bindings \in BindingLists : CallGroupBindings(bindings)
    \/ \E node \in NodeIds : CallAnalyzeNode(node)

SpecClassifier == Init /\ [][NextClassifier]_vars

\* the group whose list in DESIGN_PROPERTY_GROUPS holds the name, if any
ListedGroups(property) ==
    {g \in {"colors", "spacing", "sizing", "typography", "effects"} :
        property \in Range(CASE g = "colors" -> GROUP_COLORS
                             [] g = "spacing" -> GROUP_SPACING
                             [] g = "sizing" -> GROUP_SIZING
                             [] g = "typography" -> GROUP_TYPOGRAPHY
                             [] g = "effects" -> GROUP_EFFECTS)}

EffectPrefixes ==
    {"effect.", "dropShadow.", "innerShadow.", "layerBlur.", "backgroundBlur."}

LooksLikeEffect(property) ==
    \/ \E prefix \in EffectPrefixes : StartsWith(property, prefix)
    \/ Includes(property, "SHADOW")
    \/ Includes(property, "BLUR")

Classified(property, group) ==
    probe.fn = "getPropertyGroup" /\ probe.arg = property => probe.result = group

\* C16: getPropertyGroup is total and a function of the name alone: a name
\* listed in a group of the catalogue gets that group, any other name gets
\* "effects" when it starts with an effect prefix or contains SHADOW or BLUR,
\* and "other" otherwise; paddingLeft is spacing, fontWeight is typography,
\* dropShadow.radius is effects, and customFooBar is other.
C16_PropertyGroup ==
    /\ probe.fn = "getPropertyGroup" =>
          /\ probe.result \in Range(PropertyGroups)
          /\ probe.result = getPropertyGroup(probe.arg)
          /\ ListedGroups(probe.arg) # {} => ListedGroups(probe.arg) = {probe.result}
          /\ ListedGroups(probe.arg) = {} =>
                probe.result = IF LooksLikeEffect(probe.arg) THEN "effects" ELSE "other"
    /\ Classified("paddingLeft", "spacing")
    /\ Classified("fontWeight", "typography")
    /\ Classified("dropShadow.radius", "effects")
    /\ Classified("customFooBar", "other")

C16_Witness ==
    /\ probe.fn = "getPropertyGroup"
    /\ probe.arg = "dropShadow.radius"
    /\ probe.result = "effects"

---------------------------------------------------------------------------
(* One of the analyses called twice on one container of an unchanged       *)
(* document.  Between the calls the host may answer a variable or          *)
(* collection lookup later or sooner than the 3 s timer of getVariableInfo. *)

\* the lookup of `id` (of the variable, or of its collection) outlasts the timer
SlowLookup(id, which) ==
    [i \in VarIds |->
        IF i # id THEN Resolved
        ELSE IF which = "variable" THEN [Resolved EXCEPT !.variable = "timeout"]
        ELSE [Resolved EXCEPT !.collection = "timeout"]]

\* every lookup in time, or exactly one lookup slower than the timer
Latencies ==
    {[i \in VarIds |-> Resolved]}
    \cup {SlowLookup(id, which) : id \in VarIds, which \in {"variable", "collection"}}

\* what getVariableInfo returns for each variable id right now
LookupsNow == [id \in VarIds |-> getVariableInfo(id)]

\* the host answers the lookups with another latency; the document is untouched
LatencyChanges(store) ==
    /\ store # varHost
    /\ varHost' = store
    /\ UNCHANGED <<nodes, selection, inbox, handler, jumps, selEvents, outbox,
                   closed, uiSize, viewport, sent, started, auditRun, analysisRun,
                   edits, trip, probe, history, refresher>>

\* which analysis the history holds, and on which container
Repeating(fn, containerId) ==
    /\ Len(history[fn]) < 2
    /\ \A other \in DOMAIN history : other # fn => history[other] = <<>>
    /\ history[fn] # <<>> => history[fn][1].containerId = containerId

RepeatAudit(containerId) ==
    /\ Repeating("audit", containerId)
    /\ auditRun' = [containerId |-> containerId,
                    result |-> auditContainer(containerId, NO_NODE),
                    threw |-> FALSE, fresh |-> TRUE]
    /\ history' = [history EXCEPT !.audit =
                      Append(@, [containerId |-> containerId,
                                 result |-> auditContainer(containerId, NO_NODE),
                                 lookups |-> LookupsNow])]
    /\ UNCHANGED <<nodes, varHost, selection, inbox, handler, jumps, selEvents, outbox,
                   closed, uiSize, viewport, sent, started, analysisRun,
                   edits, trip, probe, refresher>>

RepeatAnalysis(containerId) ==
    /\ Repeating("analysis", containerId)
    /\ analysisRun' = [containerId |-> containerId,
                       result |-> analyzeContainerContent(containerId, NO_NODE),
                       threw |-> FALSE, fresh |-> TRUE]
    /\ history' = [history EXCEPT !.analysis =
                      Append(@, [containerId |-> containerId,
                                 result |-> analyzeContainerContent(containerId, NO_NODE),
                                 lookups |-> LookupsNow])]
    /\ UNCHANGED <<nodes, varHost, selection, inbox, handler, jumps, selEvents, outbox,
                   closed, uiSize, viewport, sent, started, auditRun,
                   edits, trip, probe, refresher>>

InitRerun ==
    /\ nodes \in {SmallDoc(InstanceBindings[b], MainComponents.local) :
                    b \in DOMAIN InstanceBindings}
    /\ varHost = [id \in VarIds |-> Resolved]
    /\ RouterAtRest
    /\ auditRun = NoRun
    /\ analysisRun = NoRun
    /\ edits = 0
    /\ trip = NoTrip
    /\ probe = NoProbe
    /\ history = NoHistory
    /\ refresher = AtStart

NextRerun ==
    \/ \E c \in RequestIds : RepeatAudit(c)
    \/ \E c \in RequestIds : RepeatAnalysis(c)
    \/ \E store \in Latencies : LatencyChanges(store)

SpecRerun == InitRerun /\ [][NextRerun]_vars

\* both calls of one analysis have been made
Twice(fn) == Len(history[fn]) = 2

\* both calls saw every lookup settle the same way
SameLookups(fn) == history[fn][1].lookups = history[fn][2].lookups

\* a binding without what the lookup contributed to it
Unnamed(binding) ==
    [property |-> binding.property, variableId |-> binding.variableId,
     bindingType |-> binding.bindingType, arrayIndex |-> binding.arrayIndex]

UnnamedAll(bindings) == [i \in 1..Len(bindings) |-> Unnamed(bindings[i])]

\* an audited node without the names and findings the lookups contributed
AuditShape(n) ==
    [id |-> n.id, name |-> n.name, type |-> n.type, framePath |-> n.framePath,
     classification |-> n.classification,
     bindings |-> UnnamedAll(n.variableBindings)]

AuditSkeleton(result) ==
    IF result = Null THEN Null
    ELSE [containerId |-> result.containerId, summary |-> result.summary,
          coveragePercentage |-> result.coveragePercentage,
          withVariables |-> [i \in 1..Len(result.withVariables) |->
                               AuditShape(result.withVariables[i])],
          withoutVariables |-> [i \in 1..Len(result.withoutVariables) |->
                                  AuditShape(result.withoutVariables[i])]]

AnalysisShape(n) ==
    [id |-> n.id, name |-> n.name, type |-> n.type,
     hasBoundVariables |-> n.hasBoundVariables,
     bindings |-> UnnamedAll(n.variableBindings)]

FrameSkeleton(frame) ==
    [id |-> frame.id, name |-> frame.name, totalNodes |-> frame.totalNodes,
     nodes |-> [i \in 1..Len(frame.nodes) |-> AnalysisShape(frame.nodes[i])]]

AnalysisSkeleton(result) ==
    IF result = Null THEN Null
    ELSE [sectionId |-> result.sectionId, totalFrames |-> result.totalFrames,
          totalNodes |-> result.totalNodes,
          totalTextNodes |-> result.totalTextNodes,
          totalInstanceNodes |-> result.totalInstanceNodes,
          frames |-> [i \in 1..Len(result.frames) |-> FrameSkeleton(result.frames[i])]]

ResolvedJumpSelects ==
    \E j \in jumps :
        /\ JumpEnds(j)
        /\ j.nodeId \in NodeIds
        /\ selection' = <<j.nodeId>>

\* the step is the rest of one of the three awaited requests, or takes a
\* message of the UI, or broadcasts a selection change
ServesRequest ==
    \/ handler' # handler
    \/ inbox' # inbox
    \/ uiSize' # uiSize
    \/ Len(selEvents') < Len(selEvents)

\* C18: no step of the plugin writes a node (properties, bindings,
\* visibility, name, parent and children links) or the variable store; the
\* selection is written only by the step of a jump-to-node whose identifier
\* resolves, and then to that node; the steps serving analyze-section,
\* audit-container, get-container-info, get-sections, resize and a
\* selection change leave selection and scene graph as they were.
C18_ReadOnly ==
    [][ /\ nodes' = nodes
        /\ varHost' = varHost
        /\ selection' # selection => ResolvedJumpSelects
        /\ ServesRequest => selection' = selection ]_vars

\* a jump has selected a frame and an audit of a container has been answered,
\* on the document the plugin started with
C18_Witness ==
    /\ selection = <<3>>
    /\ \E i \in 1..Len(outbox) : outbox[i].type = "audit-result"
                                 /\ outbox[i].payload # Null
    /\ \E i \in 1..Len(outbox) : outbox[i].type = "node-jumped"
    /\ nodes[3].visible /\ nodes[3].name = "Hero"

---------------------------------------------------------------------------
(* The audit requests of the UI served while any number of variable and    *)
(* collection lookups never settle.  The event loop resumes a handler      *)
(* whose await has settled: weak fairness of the step after the await.     *)

\* the variable lookup of every id in `slow` settles only by the timer, or
\* (which = "collection") the lookup of its collection does
NeverSettling(slow, which) ==
    [id \in VarIds |->
        IF id \notin slow THEN Resolved
        ELSE IF which = "variable" THEN [Resolved EXCEPT !.variable = "timeout"]
        ELSE [Resolved EXCEPT !.collection = "timeout"]]

HangingStores ==
    {NeverSettling(slow, which) : slow \in SUBSET VarIds,
                                  which \in {"variable", "collection"}}

AuditMessages ==
    {[type |-> "audit-container", id |-> i, size |-> InitialSize] : i \in MsgIds}

InitLive ==
    /\ nodes = SmallDoc(InstanceBindings.catalogue, MainComponents.local)
    /\ varHost \in HangingStores
    /\ RouterAtRest
    /\ auditRun = NoRun
    /\ analysisRun = NoRun
    /\ edits = 0
    /\ trip = NoTrip
    /\ probe = NoProbe
    /\ history = NoHistory
    /\ refresher = AtStart

NextLive ==
    \/ \E m \in AuditMessages : Send(m)
    \/ \E f \in RouterFaults : OnRequest(f)
    \/ AuditContainerDone

\* the event loop resumes the activation suspended in `await auditContainer`
\* once every race it waits for has settled: the step AuditContainerDone
\* takes, told by its guard and by the handler becoming idle
AuditResumes ==
    /\ ~closed
    /\ handler # Idle
    /\ handler.type = "audit-container"
    /\ \A id \in handler.awaits : RaceSettles(id)
    /\ handler' = Idle

SpecLive == InitLive /\ [][NextLive]_vars /\ WF_handler(AuditResumes)

\* onmessage has started request s, an audit-container, and awaits the audit
AuditAwaited(s) ==
    handler # Idle /\ handler.type = "audit-container" /\ handler.seq = s

\* an audit-result answering request s is in the outbox
AuditPosted(s) ==
    \E i \in 1..Len(outbox) : outbox[i].type = "audit-result" /\ outbox[i].re = s

\* C19: every audit-container request the handler has started is eventually
\* answered by an audit-result message, whichever variable and collection
\* lookups never settle: each race is ended by its timer at the latest.
C19_AuditCompletes ==
    \A s \in 1..MaxMsgs : AuditAwaited(s) ~> AuditPosted(s)

\* an audit of a container with a bound variable whose lookup never settles
\* has been answered, the binding carrying the placeholder name
C19_Witness ==
    \E i \in 1..Len(outbox) :
        /\ outbox[i].type = "audit-result"
        /\ outbox[i].payload # Null
        /\ \E k \in 1..Len(outbox[i].payload.withVariables) :
              \E b \in Range(outbox[i].payload.withVariables[k].variableBindings) :
                 /\ ~LookupSettles(b.variableId)
                 /\ StartsWith(b.variableName, PLACEHOLDER_PREFIX)

\* the descendants analyzeContainerContent enumerates under frame root f when
\* the nested-component exclusion is ignored, in the order of findAll
EnumeratedUnder(f) ==
    LET Visible(n) == isNodeEffectivelyVisible(n, f) IN Filter(findAll(f), Visible)

\* those of them whose type is on the allow-list
AllowListedUnder(f) ==
    LET Listed(n) == nodes[n].type \in AUDITABLE_NODE_TYPES
    IN Filter(EnumeratedUnder(f), Listed)

\* no layer from n up to the page is switched off
ShownUpToPage(n) ==
    \A a \in StrictAncestors(n) \cup {n} : HasVisibleFlag(a) => nodes[a].visible

\* the frame root itself, which the audit takes when nothing hides it
RootUnlessHidden(f) == IF ShownUpToPage(f) THEN <<f>> ELSE <<>>

\* the container of the audit that has been run
Audited == auditRun.containerId

\* C20 as stated: the audit collects the allow-listed, effectively visible
\* nodes among the descendants of the frame roots, and nothing else.
C20_Original ==
    AuditDone =>
        collectAuditableNodes(Audited)
          = Concat([i \in 1..Len(frameChildren(Audited)) |->
                      AllowListedUnder(frameChildren(Audited)[i])])

\* C20: for each frame root of the container, in order (the FRAME children
\* of a section, or the frame itself), the audit collects the root when no
\* layer from it up to the page is hidden, and then the allow-listed,
\* effectively visible nodes among the root's descendants in the depth-first
\* order in which the analysis enumerates them; nothing outside the frame
\* roots is collected, and the audited nodes are the first fifty of these.
C20_CollectedNodes ==
    AuditDone =>
        /\ collectAuditableNodes(Audited)
             = Concat([i \in 1..Len(frameChildren(Audited)) |->
                         RootUnlessHidden(frameChildren(Audited)[i])
                         \o AllowListedUnder(frameChildren(Audited)[i])])
        /\ \A n \in Range(collectAuditableNodes(Audited)) :
              \E i \in 1..Len(frameChildren(Audited)) :
                 frameChildren(Audited)[i] \in Range(PathTo(n))
        /\ AuditedIds(auditRun.result)
             = Range(SubSeq(collectAuditableNodes(Audited), 1,
                            Min(AUDIT_NODE_CAP, Len(collectAuditableNodes(Audited)))))

\* a section with a non-FRAME child has been audited after a layer inside one
\* of its frames was hidden: the frame root is collected, the hidden layer
\* is not, and the loose child is not
C20_Witness ==
    /\ AuditDone
    /\ nodes[Audited].type = "SECTION"
    /\ \E c \in Range(nodes[Audited].children) :
          nodes[c].type \in AUDITABLE_NODE_TYPES \ {"FRAME"}
    /\ \E f \in Range(frameChildren(Audited)) :
          /\ f \in AuditedIds(auditRun.result)
          /\ \E n \in Range(findAll(f)) : ~isNodeEffectivelyVisible(n, f)
          /\ Len(AllowListedUnder(f)) > 0

---------------------------------------------------------------------------
(* The shape of an analysis result *)

\* the container of the analysis that has been run
Analyzed == analysisRun.containerId

\* the ids of the FrameInfo records of a result, in order
FrameIds(r) == [i \in 1..Len(r.frames) |-> r.frames[i].id]

RECURSIVE FrameKindOf(_)
\* the FRAME-kind members of a list of nodes, in the order of the list
FrameKindOf(children) ==
    IF children = <<>> THEN <<>>
    ELSE (IF nodes[Head(children)].type = "FRAME" THEN <<Head(children)>> ELSE <<>>)
         \o FrameKindOf(Tail(children))

RECURSIVE SumOver(_, _, _)
\* the sum of count f over the first n frames
SumOver(frames, f, n) == IF n = 0 THEN 0 ELSE SumOver(frames, f, n - 1) + frames[n][f]

\* the totals of the rollup and the per-frame counts they sum
RollupFields ==
    {<<"totalTextNodes", "textNodesCount">>, <<"totalNodes", "totalNodes">>,
     <<"totalInstanceNodes", "instanceNodesCount">>,
     <<"totalComponentNodes", "componentNodesCount">>,
     <<"totalRemoteComponents", "remoteComponentsCount">>,
     <<"totalLocalComponents", "localComponentsCount">>}

\* C21: a non-null analysis result lists exactly the container itself when
\* it is a FRAME, and exactly its direct FRAME children in child order when
\* it is a SECTION; totalFrames is the number of frames, totalNodes of a
\* frame is the length of its node list, and every total of the rollup is
\* the sum of the per-frame counts.
C21_FramesAndRollup ==
    AnalysisDone =>
        LET r == analysisRun.result IN
        /\ nodes[Analyzed].type = "FRAME" =>
              FrameIds(r) = <<Analyzed>> /\ r.totalFrames = 1
        /\ nodes[Analyzed].type = "SECTION" =>
              FrameIds(r) = FrameKindOf(nodes[Analyzed].children)
        /\ r.totalFrames = Len(r.frames)
        /\ \A i \in 1..Len(r.frames) : r.frames[i].totalNodes = Len(r.frames[i].nodes)
        /\ \A p \in RollupFields : r[p[1]] = SumOver(r.frames, p[2], Len(r.frames))

\* a section with a loose child and a frame nested in one of its frames has
\* been analyzed, and two frames are reported with nodes in them
C21_Witness ==
    /\ AnalysisDone
    /\ nodes[Analyzed].type = "SECTION"
    /\ \E c \in Range(nodes[Analyzed].children) : nodes[c].type # "FRAME"
    /\ \E n \in NodeIds : /\ nodes[n].type = "FRAME"
                          /\ Analyzed \in StrictAncestors(n)
                          /\ nodes[n].parent # Analyzed
    /\ analysisRun.result.totalFrames = 2
    /\ analysisRun.result.totalNodes > 2

---------------------------------------------------------------------------
(* The shape of an audit result *)

\* the members of `order` that are in set `keep`, in the order of `order`
RECURSIVE Restrict(_, _)
Restrict(order, keep) ==
    IF order = <<>> THEN <<>>
    ELSE (IF Head(order) \in keep THEN <<Head(order)>> ELSE <<>>)
         \o Restrict(Tail(order), keep)

IdsInOrder(list) == [i \in 1..Len(list) |-> list[i].id]

\* the record an audit result holds for node n
RecordOf(r, n) == CHOOSE rec \in AuditedNodes(r) : rec.id = n

HasRule(rec, rule) == \E i \in 1..Len(rec.lintFindings) : rec.lintFindings[i].rule = rule

\* C22: in a non-null audit result withVariables and withoutVariables are
\* disjoint, hold every processed node exactly once, each in traversal
\* order; the two counts of the summary are their lengths and add up to
\* totalAuditableNodes; a node is in withoutVariables iff it has no binding
\* iff it carries a NoVariables finding, whose severity is warning; and
\* lintFindings is the per-node finding lists concatenated in traversal order.
C22_Partition ==
    AuditDone =>
        LET r == auditRun.result
            order == Retained(Audited)
            with == IdsInOrder(r.withVariables)
            without == IdsInOrder(r.withoutVariables)
        IN /\ Range(with) \cap Range(without) = {}
           /\ Range(with) \cup Range(without) = Range(order)
           /\ Len(with) + Len(without) = Len(order)
           /\ with = Restrict(order, Range(with))
           /\ without = Restrict(order, Range(without))
           /\ r.summary.withVariablesCount = Len(r.withVariables)
           /\ r.summary.withoutVariablesCount = Len(r.withoutVariables)
           /\ r.summary.withVariablesCount + r.summary.withoutVariablesCount
                 = r.summary.totalAuditableNodes
           /\ \A rec \in AuditedNodes(r) :
                 /\ rec.id \in Range(without) <=> Len(rec.variableBindings) = 0
                 /\ rec.id \in Range(without) <=> HasRule(rec, "NoVariables")
                 /\ \A i \in 1..Len(rec.lintFindings) :
                       rec.lintFindings[i].rule = "NoVariables"
                          => rec.lintFindings[i].severity = "warning"
           /\ r.lintFindings
                 = Concat([i \in 1..Len(order) |-> RecordOf(r, order[i]).lintFindings])

\* an audit has listed nodes on both sides, and a node with bindings carries
\* a warning of another rule
C22_Witness ==
    /\ AuditDone
    /\ Len(auditRun.result.withVariables) > 1
    /\ Len(auditRun.result.withoutVariables) > 1
    /\ \E i \in 1..Len(auditRun.result.withVariables) :
          HasWarning(auditRun.result.withVariables[i])

---------------------------------------------------------------------------
(* Documents for the lint rules: a page with an auto-layout frame "Card"   *)
(* (node 2) holding one layer (node 3).  Either the frame or the layer     *)
(* varies in the fields the rules read; the other one stays plain.         *)

\* the raw binding map that binds exactly the properties of `props`
BindAll(props) == [p \in props |-> IF p \in {"fills", "strokes"}
                                   THEN AliasArray(<<Item(VarShort)>>)
                                   ELSE Alias(VarEight)]

TextProbes == {"fontSize", "fontFamily", "fontWeight", "fills"}
SpacingProbes == {"paddingTop", "paddingRight", "paddingBottom", "paddingLeft", "itemSpacing"}

\* the binding maps tried on the layer and on the frame
LayerBound ==
    {{}, {"fontSize"}, {"fills"}, {"fontFamily", "fontWeight"}, TextProbes,
     {"strokes"}, {"fills", "strokes"}, {"width"}}
FrameBound ==
    {{}, {"paddingTop"}, {"paddingLeft"}, {"itemSpacing"},
     {"paddingRight", "paddingBottom"}, SpacingProbes, {"fills"}}

PlainCard == [Node("Card", "FRAME", 1, <<3>>) EXCEPT !.layoutMode = "VERTICAL"]
PlainLayer == [Node("Label", "TEXT", 2, <<>>) EXCEPT !.characters = "Hi"]

LintDoc(card, layer) ==
    [n \in 1..3 |->
        CASE n = 1 -> Node("Page 1", "PAGE", NO_NODE, <<2>>)
          [] n = 2 -> card
          [] n = 3 -> layer]

Cards ==
    {[PlainCard EXCEPT !.layoutMode = mode, !.paddingTop = top, !.itemSpacing = gap,
                       !.fillStyleId = style, !.boundVariables = BindAll(bound)] :
        mode \in {"NONE", "VERTICAL"}, top \in {0, 8}, gap \in {0, 4},
        style \in {"", "S:1"}, bound \in FrameBound}

Layers ==
    {[PlainLayer EXCEPT !.type = type, !.characters = text, !.fillStyleId = fill,
                        !.strokeStyleId = stroke, !.boundVariables = BindAll(bound)] :
        type \in {"TEXT", "RECTANGLE"}, text \in {"", "Hi"},
        fill \in {"", "S:1"}, stroke \in {"", "S:2"}, bound \in LayerBound}

LintDocs ==
    {LintDoc(card, PlainLayer) : card \in Cards}
    \cup {LintDoc(PlainCard, layer) : layer \in Layers}

\* every lookup resolves, or the lookup of VarShort finds no variable
LintStores ==
    {[id \in VarIds |-> Resolved],
     [id \in VarIds |-> IF id = VarShort THEN [Resolved EXCEPT !.variable = "null"]
                        ELSE Resolved]}

InitLint ==
    /\ nodes \in LintDocs
    /\ varHost \in LintStores
    /\ RouterAtRest
    /\ auditRun = NoRun
    /\ analysisRun = NoRun
    /\ edits = 0
    /\ trip = NoTrip
    /\ probe = NoProbe
    /\ history = NoHistory
    /\ refresher = AtStart

NextLint == \E c \in RequestIds, f \in FaultIds : RunAudit(c, f)

\* the audit applied to the documents made for the lint rules
SpecLint == InitLint /\ [][NextLint]_vars

\* the findings of one rule an audit result holds for node n
FindingsOf(r, n, rule) ==
    LET Is(f) == f.rule = rule IN Filter(RecordOf(r, n).lintFindings, Is)

\* the properties the audit found bound on node n
BoundOn(r, n) ==
    {RecordOf(r, n).variableBindings[i].property :
        i \in 1..Len(RecordOf(r, n).variableBindings)}

\* some probe property of the text rule is bound on n and some is not
PartlyBoundText(r, n) ==
    /\ \E p \in TextProbes : p \in BoundOn(r, n)
    /\ \E p \in TextProbes : p \notin BoundOn(r, n)

\* C23 as stated: a MixedText finding is produced for a node iff it is a
\* TEXT node with a probe property bound and a probe property unbound.
C23_Original ==
    AuditDone =>
        \A n \in AuditedIds(auditRun.result) :
            FindingsOf(auditRun.result, n, "MixedText") # <<>>
               <=> nodes[n].type = "TEXT" /\ PartlyBoundText(auditRun.result, n)

\* C23: a MixedText finding (severity warning) is produced for a node iff it
\* is a TEXT node whose characters are not empty and, among fontSize,
\* fontFamily, fontWeight and fills, one is bound and one is not; at most
\* one per node, none for a node that is no TEXT.
C23_MixedText ==
    AuditDone =>
        \A n \in AuditedIds(auditRun.result) :
            LET found == FindingsOf(auditRun.result, n, "MixedText") IN
            /\ found # <<>> <=> /\ nodes[n].type = "TEXT"
                                /\ nodes[n].characters # ""
                                /\ PartlyBoundText(auditRun.result, n)
            /\ Len(found) <= 1
            /\ \A i \in 1..Len(found) : found[i].severity = "warning" /\ found[i].nodeId = n

\* a text layer with fontSize bound and the other probes unbound carries the finding
C23_Witness ==
    /\ AuditDone
    /\ 3 \in AuditedIds(auditRun.result)
    /\ nodes[3].type = "TEXT"
    /\ BoundOn(auditRun.result, 3) = {"fontSize"}
    /\ Len(FindingsOf(auditRun.result, 3, "MixedText")) = 1

\* the value the magic-number rule reads for a spacing property
StandIn(n, prop) == IF prop = "itemSpacing" THEN nodes[n].itemSpacing ELSE nodes[n].paddingTop

\* the findings of a rule that name property prop
Naming(found, prop) == LET Names(f) == f.property = prop IN Filter(found, Names)

\* C24: MagicNumbers findings (severity warning) are produced only for FRAME
\* nodes whose layoutMode is not NONE; for each of the four paddings and
\* itemSpacing, one finding naming the property is produced iff the property
\* has no binding and its stand-in value (itemSpacing for itemSpacing,
\* paddingTop for every padding) is greater than zero.
C24_MagicNumbers ==
    AuditDone =>
        \A n \in AuditedIds(auditRun.result) :
            LET found == FindingsOf(auditRun.result, n, "MagicNumbers") IN
            /\ found # <<>> => nodes[n].type = "FRAME" /\ nodes[n].layoutMode # "NONE"
            /\ \A i \in 1..Len(found) :
                  /\ found[i].severity = "warning"
                  /\ found[i].property \in SpacingProbes
                  /\ found[i].nodeId = n
            /\ nodes[n].type = "FRAME" /\ nodes[n].layoutMode # "NONE" =>
                  \A prop \in SpacingProbes :
                     /\ Len(Naming(found, prop)) <= 1
                     /\ Naming(found, prop) # <<>>
                           <=> prop \notin BoundOn(auditRun.result, n) /\ StandIn(n, prop) > 0

\* an auto-layout frame with paddingLeft bound, paddingTop 8 and no gap is
\* reported for the three other paddings and for nothing else
C24_Witness ==
    /\ AuditDone
    /\ 2 \in AuditedIds(auditRun.result)
    /\ nodes[2].layoutMode # "NONE"
    /\ nodes[2].paddingTop > 0 /\ nodes[2].itemSpacing = 0
    /\ BoundOn(auditRun.result, 2) = {"paddingLeft"}
    /\ Len(FindingsOf(auditRun.result, 2, "MagicNumbers")) = 3

\* C25: ConflictingStyleVsVariable findings (severity info): one with
\* property fills iff the node has a non-empty fillStyleId and no binding on
\* fills, one with property strokes iff it has a non-empty strokeStyleId and
\* no binding on strokes; each is decided by its own style and binding alone,
\* whatever the other one and the other rules find.
C25_StyleConflicts ==
    AuditDone =>
        \A n \in AuditedIds(auditRun.result) :
            LET found == FindingsOf(auditRun.result, n, "ConflictingStyleVsVariable") IN
            /\ \A i \in 1..Len(found) :
                  /\ found[i].severity = "info"
                  /\ found[i].property \in {"fills", "strokes"}
                  /\ found[i].nodeId = n
            /\ Len(Naming(found, "fills")) =
                  (IF nodes[n].fillStyleId # "" /\ "fills" \notin BoundOn(auditRun.result, n)
                   THEN 1 ELSE 0)
            /\ Len(Naming(found, "strokes")) =
                  (IF nodes[n].strokeStyleId # "" /\ "strokes" \notin BoundOn(auditRun.result, n)
                   THEN 1 ELSE 0)

\* a text layer with both legacy styles, fontSize bound and nothing on fills
\* or strokes carries both findings next to a MixedText finding
C25_Witness ==
    /\ AuditDone
    /\ 3 \in AuditedIds(auditRun.result)
    /\ Len(FindingsOf(auditRun.result, 3, "ConflictingStyleVsVariable")) = 2
    /\ Len(FindingsOf(auditRun.result, 3, "MixedText")) = 1

\* the place of a property in the catalogue
CatalogueIndex(prop) == CHOOSE i \in 1..Len(DESIGN_PROPERTIES) : DESIGN_PROPERTIES[i] = prop

\* binding a comes before binding b: an earlier property, or the same
\* array-valued property at a smaller index
ComesBefore(a, b) ==
    \/ CatalogueIndex(a.property) < CatalogueIndex(b.property)
    \/ /\ a.property = b.property
       /\ a.bindingType = "array" /\ b.bindingType = "array"
       /\ a.arrayIndex < b.arrayIndex

\* binding b is what the raw binding map of node n holds at its property and index
FromRawMap(n, b) ==
    /\ b.property \in DOMAIN nodes[n].boundVariables
    /\ LET raw == nodes[n].boundVariables[b.property] IN
       IF b.bindingType = "array"
       THEN /\ raw.isArray
            /\ b.arrayIndex \in 0..(Len(raw.items) - 1)
            /\ raw.items[b.arrayIndex + 1].id = b.variableId
       ELSE /\ ~raw.isArray
            /\ b.arrayIndex = -1
            /\ raw.id = b.variableId

\* C26: the bindings extracted for a node follow the catalogue order of
\* their properties and, inside one array-valued property, the ascending
\* index; every property is in the catalogue; an array element gives a
\* binding of type array with its index, a scalar one binding without
\* index; no pair of property and index occurs twice.
C26_BindingOrder ==
    AuditDone =>
        \A rec \in AuditedNodes(auditRun.result) :
            LET b == rec.variableBindings IN
            /\ b = extractVariableBindings(nodes[rec.id])
            /\ \A i \in 1..Len(b) :
                  /\ b[i].property \in Range(DESIGN_PROPERTIES)
                  /\ b[i].bindingType \in {"array", "normal"}
                  /\ FromRawMap(rec.id, b[i])
            /\ \A i, j \in 1..Len(b) :
                  /\ i < j => ComesBefore(b[i], b[j])
                  /\ i # j => <<b[i].property, b[i].arrayIndex>>
                                 # <<b[j].property, b[j].arrayIndex>>

\* an audited node has two elements of one array bound, a null element
\* between them, and a scalar binding after them
C26_Witness ==
    /\ AuditDone
    /\ \E rec \in AuditedNodes(auditRun.result) :
          /\ Len(rec.variableBindings) = 3
          /\ rec.variableBindings[1].arrayIndex = 0
          /\ rec.variableBindings[2].arrayIndex = 2
          /\ rec.variableBindings[2].property = rec.variableBindings[1].property
          /\ rec.variableBindings[3].bindingType = "normal"

\* C27 as stated: every finding of an audit result, in lintFindings and in
\* the list of each audited node, carries the id of the audited node it was
\* raised for, for all five rules.
C27_Original ==
    AuditDone =>
        /\ \A rec \in AuditedNodes(auditRun.result) :
              \A i \in 1..Len(rec.lintFindings) : rec.lintFindings[i].nodeId = rec.id
        /\ \A i \in 1..Len(auditRun.result.lintFindings) :
              auditRun.result.lintFindings[i].nodeId \in AuditedIds(auditRun.result)

---------------------------------------------------------------------------
(* services/events.ts: the debounced refresh of the section list.  The     *)
(* user renames a section (documentchange), the polling interval ticks,    *)
(* and the event loop runs the 100 ms timer of refreshSectionsDebounced.   *)

\* the largest number of refreshSectionsDebounced calls followed
MaxCalls == 4

\* setInterval and setTimeout return positive handles
FirstTimerId == 1

CurrentPage == CHOOSE n \in NodeIds : nodes[n].type = "PAGE"

\* getSections(): the SECTION children of the current page, in child order
getSections ==
    LET IsSection(n) == nodes[n].type = "SECTION"
        found == Filter(nodes[CurrentPage].children, IsSection)
    IN [i \in 1..Len(found) |-> [id |-> found[i], name |-> nodes[found[i]].name]]

\* getSelectedSectionId(); NO_NODE stands for null
getSelectedSectionId ==
    IF selection = <<>> THEN NO_NODE
    ELSE LET IsSection(n) == nodes[n].type = "SECTION"
             found == Filter(selection, IsSection)
         IN IF found # <<>> THEN Head(found)
            ELSE NearestSection(selection[1])

\* a mutant: the flag is not looked at and every call sets a timer
ScheduleAlways(r) ==
    [r EXCEPT !.pendingSectionsRefresh = TRUE, !.timers = @ + 1, !.calls = @ + 1]

\* refreshSectionsDebounced(), up to its setTimeout
refreshSectionsDebounced(r) ==
    IF r.pendingSectionsRefresh THEN [r EXCEPT !.calls = @ + 1]
    ELSE [r EXCEPT !.pendingSectionsRefresh = TRUE, !.timers = @ + 1, !.calls = @ + 1]

\* startSectionsPolling()
startSectionsPolling(r) ==
    IF r.sectionsPollingInterval # 0 THEN r
    ELSE [r EXCEPT !.sectionsPollingInterval = FirstTimerId, !.intervals = @ + 1]

\* the names the user gives the second section of the page
SectionNames == {"Empty", "Archive", "Drafts"}

\* the plugin start and a later call of startSectionsPolling
StartSectionsPolling ==
    /\ refresher' = startSectionsPolling(refresher)
    /\ UNCHANGED <<nodes, varHost, selection, inbox, handler, jumps, selEvents, outbox,
                   closed, uiSize, viewport, sent, started, auditRun, analysisRun,
                   edits, trip, probe, history>>

\* the callback of setInterval
PollTick ==
    /\ refresher.sectionsPollingInterval # 0
    /\ refresher.calls < MaxCalls
    /\ refresher' = refreshSectionsDebounced(refresher)
    /\ UNCHANGED <<nodes, varHost, selection, inbox, handler, jumps, selEvents, outbox,
                   closed, uiSize, viewport, sent, started, auditRun, analysisRun,
                   edits, trip, probe, history>>

\* the user renames a section; the documentchange listener runs
OnDocumentChange(name) ==
    /\ refresher.calls < MaxCalls
    /\ name # nodes[6].name
    /\ nodes' = [nodes EXCEPT ![6].name = name]
    /\ refresher' = refreshSectionsDebounced(refresher)
    /\ UNCHANGED <<varHost, selection, inbox, handler, jumps, selEvents, outbox,
                   closed, uiSize, viewport, sent, started, auditRun, analysisRun,
                   edits, trip, probe, history>>

\* the callback of the setTimeout of refreshSectionsDebounced
RefreshTimerFires ==
    /\ refresher.timers > 0
    /\ refresher' = [refresher EXCEPT !.pendingSectionsRefresh = FALSE,
                                      !.timers = @ - 1,
                                      !.answered = refresher.calls]
    /\ postMessage("sections-loaded",
                   [sections |-> getSections, selectedSectionId |-> getSelectedSectionId],
                   0)
    /\ UNCHANGED <<nodes, varHost, selection, inbox, handler, jumps, selEvents,
                   closed, uiSize, viewport, sent, started, auditRun, analysisRun,
                   edits, trip, probe, history>>

NextDebounce ==
    \/ StartSectionsPolling
    \/ PollTick
    \/ \E name \in SectionNames : OnDocumentChange(name)
    \/ RefreshTimerFires

\* the event loop runs a timer that is due
SpecDebounce == Init /\ [][NextDebounce]_vars /\ WF_vars(RefreshTimerFires)

SectionsLoaded == LET Is(m) == m.type = "sections-loaded" IN Filter(outbox, Is)

\* the flag, the timers and the interval agree
OneTimer ==
    /\ refresher.timers \in {0, 1}
    /\ refresher.pendingSectionsRefresh <=> refresher.timers = 1
    /\ refresher.answered < refresher.calls <=> refresher.timers = 1
    /\ refresher.intervals <= 1
    /\ refresher.sectionsPollingInterval # 0 <=> refresher.intervals = 1

\* a call made while the flag is up sets no timer; the timer posts exactly
\* one sections-loaded message, computed from the document as it is then,
\* and answers every call made so far
OneMessagePerBurst ==
    /\ refresher.pendingSectionsRefresh /\ refresher'.calls > refresher.calls
          => refresher'.timers = refresher.timers /\ outbox' = outbox
    /\ refresher'.timers < refresher.timers
          => /\ Len(outbox') = Len(outbox) + 1
             /\ outbox'[Len(outbox')].type = "sections-loaded"
             /\ outbox'[Len(outbox')].payload.sections = getSections
             /\ refresher'.answered = refresher.calls
    /\ Len(outbox') > Len(outbox) => refresher'.timers < refresher.timers

\* C28: at most one refresh timer is outstanding and pendingSectionsRefresh
\* is true exactly while it is; a call made meanwhile schedules nothing, so
\* the calls of one window get exactly one sections-loaded message; every
\* call is eventually followed by a sections-loaded message computed after
\* it; at most one polling interval is ever created.
C28_Debounce ==
    /\ []OneTimer
    /\ [][OneMessagePerBurst]_vars
    /\ \A k \in 1..MaxCalls : (refresher.calls >= k) ~> (refresher.answered >= k)

\* two calls fell into one window and one message answered both, after
\* startSectionsPolling had been called
C28_Witness ==
    /\ refresher.calls = 2
    /\ refresher.answered = 2
    /\ Len(SectionsLoaded) = 1
    /\ refresher.intervals = 1
    /\ SectionsLoaded[1].payload.sections[2].name = "Archive"

---------------------------------------------------------------------------
(* analysis/nodes.ts and analysis/components.ts: the component counts of a *)
(* frame.  The documents hold a frame with two instances, a component      *)
(* definition and a hidden instance.                                       *)

\* A page with a frame "Toolbar" holding the instances "Save" and "Undo",
\* the component definition "Chip" and the hidden instance "Ghost".
KitDoc(first, second, own) ==
    [n \in 1..6 |->
        CASE n = 1 -> Node("Page 1", "PAGE", NO_NODE, <<2>>)
          [] n = 2 -> Node("Toolbar", "FRAME", 1, <<3, 4, 5, 6>>)
          [] n = 3 -> [Node("Save", "INSTANCE", 2, <<>>) EXCEPT !.mainComponent = first]
          [] n = 4 -> [Node("Undo", "INSTANCE", 2, <<>>) EXCEPT !.mainComponent = second]
          [] n = 5 -> [Node("Chip", "COMPONENT", 2, <<>>) EXCEPT !.component.remote = own]
          [] n = 6 -> [Node("Ghost", "INSTANCE", 2, <<>>) EXCEPT
                          !.mainComponent = MainComponents.remote, !.visible = FALSE]]

KitDocs ==
    {KitDoc(MainComponents[a], MainComponents[b], own) :
        a \in DOMAIN MainComponents, b \in DOMAIN MainComponents, own \in BOOLEAN}

InitComponents ==
    /\ nodes \in KitDocs
    /\ varHost = [id \in VarIds |-> Resolved]
    /\ RouterAtRest
    /\ auditRun = NoRun
    /\ analysisRun = NoRun
    /\ edits = 0
    /\ trip = NoTrip
    /\ probe = NoProbe
    /\ history = NoHistory
    /\ refresher = AtStart

NextComponents == \E c \in RequestIds, f \in FaultIds : RunAnalysis(c, f)

\* the analysis applied to the documents made for the component counts
SpecComponents == InitComponents /\ [][NextComponents]_vars

\* the positions of a frame's node list whose componentInfo is present with
\* the given isRemote
WithComponentInfo(fr, isRemote) ==
    {k \in 1..Len(fr.nodes) :
        /\ fr.nodes[k].componentInfo # Undefined
        /\ fr.nodes[k].componentInfo.isRemote = isRemote}

\* node n is an instance whose main component is null or cannot be read
NoMainComponentFor(n) ==
    nodes[n].type = "INSTANCE" /\ nodes[n].mainComponent.outcome # "value"

---------------------------------------------------------------------------
(* groupBindings as a partition of the binding list.                       *)

\* the list groupBindings was given and the buckets it made, for a direct
\* call and for the call inside analyzeNode
Grouped ==
    IF probe.fn = "groupBindings"
    THEN [list |-> probe.arg, buckets |-> probe.result]
    ELSE [list |-> probe.result.variableBindings,
          buckets |-> probe.result.groupedBindings]

\* the positions of the list whose property is of group g
PositionsOf(list, g) == {i \in 1..Len(list) : getPropertyGroup(list[i].property) = g}

\* the j-th smallest member of a set of positions
NthOf(S, j) == CHOOSE i \in S : Cardinality({k \in S : k < i}) = j - 1

RECURSIVE TotalLen(_, _)
\* the sum of the lengths of the first n buckets
TotalLen(buckets, n) ==
    IF n = 0 THEN 0 ELSE TotalLen(buckets, n - 1) + Len(buckets[PropertyGroups[n]])

\* C30: groupBindings puts every binding in exactly one of the six buckets,
\* the one getPropertyGroup names for its property; the bucket sizes sum to
\* the list length and each bucket keeps the order of the list; for the list
\* extractVariableBindings produces the bucket `other` is empty, and
\* hasBoundVariables holds iff some bucket is not empty.
C30_GroupPartition ==
    /\ probe.fn \in {"groupBindings", "analyzeNode"} =>
          LET list == Grouped.list
              buckets == Grouped.buckets
          IN /\ DOMAIN buckets = Range(PropertyGroups)
             /\ TotalLen(buckets, Len(PropertyGroups)) = Len(list)
             /\ \A g \in Range(PropertyGroups) :
                   /\ Len(buckets[g]) = Cardinality(PositionsOf(list, g))
                   /\ \A j \in 1..Len(buckets[g]) :
                         buckets[g][j] = list[NthOf(PositionsOf(list, g), j)]
    /\ probe.fn = "analyzeNode" =>
          /\ probe.result.variableBindings = extractVariableBindings(nodes[probe.arg])
          /\ \A i \in 1..Len(probe.result.variableBindings) :
                probe.result.variableBindings[i].property \in Range(DESIGN_PROPERTIES)
          /\ \A p \in Range(DESIGN_PROPERTIES) : getPropertyGroup(p) # "other"
          /\ probe.result.groupedBindings.other = <<>>
          /\ probe.result.hasBoundVariables <=>
                \E g \in Range(PropertyGroups) : probe.result.groupedBindings[g] # <<>>

\* groupBindings was given a list with a binding of no known group between
\* two bindings of known groups
C30_Witness ==
    /\ probe.fn = "groupBindings"
    /\ Len(probe.arg) = 3
    /\ probe.arg[1].property = "fills"
    /\ probe.arg[2].property = "customFooBar"
    /\ probe.arg[3].property = "fills"
    /\ Len(probe.result.other) = 1
    /\ Len(probe.result.colors) = 2

\* analyzeNode has grouped the bindings of the text "Title": two colour
\* bindings in list order and one typography binding
C30_WitnessExtracted ==
    /\ probe.fn = "analyzeNode"
    /\ probe.arg = 7
    /\ probe.result.hasBoundVariables
    /\ Len(probe.result.groupedBindings.colors) = 2
    /\ probe.result.groupedBindings.colors[1].arrayIndex
          < probe.result.groupedBindings.colors[2].arrayIndex
    /\ Len(probe.result.groupedBindings.typography) = 1

====
